---- MODULE Spec2Model ----
(***************************************************************************)
(* Model of the supply-chain discrete-event simulation                     *)
(* (src/simulation/engine.py, src/domain/entities.py).                     *)
(*                                                                         *)
(* The engine runs on a SimPy Environment.  The environment is modelled by *)
(* what it does: a queue of scheduled events ordered by                    *)
(* (time, priority, event id); the start of a process is an URGENT event   *)
(* at the current time, a timeout is a NORMAL event at now + delay, and    *)
(* run(until = T) schedules an URGENT stop event at time T before the      *)
(* first step is taken.                                                    *)
(*                                                                         *)
(* Units.  Quantities (cargo, inventory, distances) are integers.  All     *)
(* times are counted in ticks of 1/TimeScale hour, TimeScale being a       *)
(* common multiple of every speed and rate of the configurations, so that  *)
(* each division of the code (distance / speed, amount / rate) is exact.   *)
(* Days of supply are compared in hours (1/24 day).  max_inventory values  *)
(* are multiples of 5, so that 0.8 * max_inventory is an integer.          *)
(***************************************************************************)
EXTENDS Integers, Sequences, FiniteSets, TLC

(***************************************************************************)
(* Bounds and input sets of the configurations explored.                   *)
(***************************************************************************)
MaxDuration == 6

MaxReruns == 1

\* the largest amount passed to load and unload in the checks of the two
MaxAmount == 12

port_location == "port_main"

Locations == {"port_main", "site_a", "site_b"}

NoId == 0

SpeedValues == {1, 2}

UnloadingRates == {4}

LoadingRates == {5}

RECURSIVE Product(_)
Product(S) == IF S = {} THEN 1
              ELSE LET x == CHOOSE y \in S : TRUE IN x * Product(S \ {x})

\* ticks per hour: a common multiple of all speeds and rates
TimeScale == Product(SpeedValues \cup UnloadingRates \cup LoadingRates)

Ticks(hours) == hours * TimeScale

Min(a, b) == IF a <= b THEN a ELSE b

\* simpy event priorities
URGENT == 0

NORMAL == 1

VARIABLES
    ships_data,         \* configuration: ship records, in roster order
    customers_data,     \* configuration: customer records, in order
    distance_matrix,    \* configuration: <<from, to>> -> distance (partial)
    simulation_params,  \* configuration: named parameters
    study,              \* the parameter study in progress, NoStudy if none
    save_results,       \* what save_results of the data source does: "saves"
                        \* or "raises"
    ships,              \* self.ships: id -> Ship state
    customers,          \* self.customers: id -> CustomerSite state
    events,             \* self.results["events"]
    metrics,            \* self.results["metrics"]
    now,                \* env.now, in ticks
    queue,              \* env._queue: the scheduled events
    eid,                \* env._eid: the next event id
    phase,              \* "constructed", "running", "returned", "raised"
    error,              \* the exception run() raised, "" if none
    runs                \* results of the earlier runs of this instance, or
                        \* the results a parameter study has recorded

vars == <<ships_data, customers_data, distance_matrix, simulation_params,
          study, save_results, ships, customers, events, metrics, now, queue,
          eid, phase, error, runs>>

config == <<ships_data, customers_data, distance_matrix, simulation_params,
            study, save_results>>

(***************************************************************************)
(* Configurations.                                                         *)
(***************************************************************************)
\* the names of the sample data, by id
ShipName(id) == IF id = 1 THEN "Vessel Alpha" ELSE "Vessel Beta"

CustomerName(id) ==
    IF id = 1 THEN "Manufacturing Plant A" ELSE "Distribution Center B"

ShipData(id, speed, loc, cargo) ==
    [id |-> id, name |-> ShipName(id), capacity |-> 10, speed |-> speed,
     initial_location |-> loc, initial_cargo |-> cargo]

CustomerData(id, loc, rate, inv) ==
    [id |-> id, name |-> CustomerName(id), location |-> loc,
     demand_rate |-> rate,
     initial_inventory |-> inv, min_inventory |-> 2, max_inventory |-> 10]

\* rosters of two ships; the order of the roster matters to the dispatcher
\* only when ships tie on cargo, so the reversed order is drawn for the
\* rosters in which ship 1 starts full
ShipRosters ==
    LET first == { ShipData(1, 1, loc, cargo) :
                    loc \in {"port_main", "site_a"}, cargo \in {0, 5, 12} }
        second == { ShipData(2, 2, "port_main", cargo) : cargo \in {0, 10} }
    IN  { <<s1, s2>> : <<s1, s2>> \in first \X second }
        \cup { <<s2, s1>> :
                <<s1, s2>> \in {s \in first : s.initial_cargo = 12} \X second }

\* customer 1 at site_a: above the threshold at first, below it from the
\* start, above its maximum, and full with a threshold above the target;
\* customer 2 without demand, or with demand at any location
CustomerLists ==
    { <<c1, c2>> :
        <<c1, c2>> \in
            { CustomerData(1, "site_a", d[1], d[2]) :
                d \in {<<1, 7>>, <<2, 3>>, <<2, 12>>, <<2, 10>>} }
            \X ({ CustomerData(2, "port_main", 0, 5) }
                \cup { CustomerData(2, loc, 2, 5) : loc \in Locations }) }

\* distances between the port and site_a, with or without the zero
\* distances of a location to itself, and a matrix without the way back to
\* the port; site_b is in no matrix
Routes == [{<<"port_main", "site_a">>, <<"site_a", "port_main">>} -> {2}]

SelfRoutes == [{<<"port_main", "port_main">>, <<"site_a", "site_a">>} -> {0}]

OneWayRoutes == [{<<"port_main", "site_a">>} -> {2}]

DistanceMatrices ==
    Routes \cup { r @@ s : <<r, s>> \in (Routes \cup OneWayRoutes) \X SelfRoutes }

SimulationParams ==
    [simulation_duration : {0, 1, MaxDuration - 1, MaxDuration},
     time_step : {1, 2},
     resupply_threshold_hours : {6},
     loading_rate : LoadingRates,
     unloading_rate : UnloadingRates,
     port_resupply_delay : {0, 1}]

(***************************************************************************)
(* Entities (src/domain/entities.py).                                      *)
(***************************************************************************)
\* Ship.__init__ without the clamp of the initial cargo to the capacity
ShipUnclamped(d) ==
    [name |-> d.name, capacity |-> d.capacity, speed |-> d.speed,
     current_location |-> d.initial_location,
     current_cargo |-> d.initial_cargo,
     busy_until |-> 0, travel_history |-> <<>>]

\* Ship.__init__
Ship(d) ==
    [name |-> d.name, capacity |-> d.capacity, speed |-> d.speed,
     current_location |-> d.initial_location,
     current_cargo |-> Min(d.initial_cargo, d.capacity),
     busy_until |-> 0, travel_history |-> <<>>]

\* a load that does not look at the capacity
load_unclamped(ship, amount) ==
    [ship |-> [ship EXCEPT !.current_cargo = @ + amount], result |-> amount]

\* Ship.load: the ship after loading, and the amount loaded
load(ship, amount) ==
    LET available_capacity == ship.capacity - ship.current_cargo
        actual_load == Min(amount, available_capacity)
    IN  [ship |-> [ship EXCEPT !.current_cargo = @ + actual_load],
         result |-> actual_load]

\* an unload that reports the amount and leaves the cargo aboard
unload_keeping_cargo(ship, amount) ==
    [ship |-> ship, result |-> Min(amount, ship.current_cargo)]

\* Ship.unload: the ship after unloading, and the amount unloaded
unload(ship, amount) ==
    LET actual_unload == Min(amount, ship.current_cargo)
    IN  [ship |-> [ship EXCEPT !.current_cargo = @ - actual_unload],
         result |-> actual_unload]

\* the lookup distance_matrix[current_location][destination] raises KeyError
HasRoute(ship, destination) ==
    <<ship.current_location, destination>> \in DOMAIN distance_matrix

\* a travel time that ignores the speed of the ship
calculate_travel_time_unit_speed(ship, destination) ==
    distance_matrix[<<ship.current_location, destination>>] * TimeScale

\* Ship.calculate_travel_time, in ticks (defined when HasRoute)
calculate_travel_time(ship, destination) ==
    (distance_matrix[<<ship.current_location, destination>>] * TimeScale)
        \div ship.speed

\* a travel_to that records no journey
travel_to_unrecorded(ship, destination, current_time) ==
    [ship EXCEPT
        !.current_location = destination,
        !.busy_until = current_time
            + (distance_matrix[<<ship.current_location, destination>>]
                * TimeScale) \div ship.speed]

\* Ship.travel_to: the ship after departure (defined when HasRoute); the
\* arrival time returned is the new busy_until
travel_to(ship, destination, current_time) ==
    LET arrival_time == current_time + calculate_travel_time(ship, destination)
    IN  [ship EXCEPT
            !.travel_history = Append(@,
                [departure |-> ship.current_location,
                 destination |-> destination,
                 departure_time |-> current_time,
                 arrival_time |-> arrival_time,
                 cargo |-> ship.current_cargo]),
            !.current_location = destination,
            !.busy_until = arrival_time]

\* CustomerSite.__init__
CustomerSite(d) ==
    [name |-> d.name, location |-> d.location,
     demand_rate |-> d.demand_rate,
     current_inventory |-> d.initial_inventory,
     min_inventory |-> d.min_inventory, max_inventory |-> d.max_inventory,
     inventory_history |-> <<>>, orders_history |-> <<>>]

\* a demand that ignores the length of the period
calculate_demand_hourly(customer, time_period) == customer.demand_rate

\* CustomerSite.calculate_demand, time_period in hours
calculate_demand(customer, time_period) == customer.demand_rate * time_period

\* CustomerSite.consume: time_period in hours, current_time in ticks
consume(customer, time_period, current_time) ==
    LET demand == calculate_demand(customer, time_period)
        actual_consumption == Min(demand, customer.current_inventory)
        inventory == customer.current_inventory - actual_consumption
    IN  [customer |-> [customer EXCEPT
            !.current_inventory = inventory,
            !.inventory_history = Append(@,
                [time |-> current_time + Ticks(time_period),
                 inventory |-> inventory,
                 demand |-> demand,
                 fulfilled |-> actual_consumption,
                 shortage |-> IF demand > actual_consumption
                              THEN demand - actual_consumption ELSE 0])],
         result |-> actual_consumption]

\* CustomerSite.receive_delivery
receive_delivery(customer, amount, current_time) ==
    LET available_space == customer.max_inventory - customer.current_inventory
        actual_received == Min(amount, available_space)
        inventory == customer.current_inventory + actual_received
    IN  [customer |-> [customer EXCEPT
            !.current_inventory = inventory,
            !.orders_history = Append(@,
                [time |-> current_time,
                 amount_requested |-> amount,
                 amount_received |-> actual_received,
                 inventory_after |-> inventory])],
         result |-> actual_received]

\* the threshold test with <= in place of <
days_of_supply_at_most(customer, threshold_hours) ==
    /\ customer.demand_rate > 0
    /\ customer.current_inventory <= threshold_hours * customer.demand_rate

\* CustomerSite.days_of_supply() < threshold, the threshold in hours:
\* infinite when demand_rate <= 0, else inventory / (demand_rate * 24) days
days_of_supply_below(customer, threshold_hours) ==
    /\ customer.demand_rate > 0
    /\ customer.current_inventory < threshold_hours * customer.demand_rate

(***************************************************************************)
(* The event log and the scheduler (simpy.Environment).                    *)
(***************************************************************************)
\* an event of the log; the fields an event type does not carry are
\* NoId, 0 or ""
Event(time, type, ship_id, customer_id, amount, inventory, cargo, location) ==
    [time |-> time, type |-> type, ship_id |-> ship_id,
     customer_id |-> customer_id, amount |-> amount,
     inventory |-> inventory, cargo |-> cargo, location |-> location]

\* log_event inserting at the front of the log
log_event_front(log, event) == <<event>> \o log

\* SupplyChainSimulation.log_event
log_event(log, event) == Append(log, event)

\* an entry of the environment's heap: (time, priority, eid, event); the
\* event is the step of the process it resumes (kind) with its locals
Scheduled(time, priority, id, kind, ship_id, customer_id, amount) ==
    [time |-> time, priority |-> priority, eid |-> id, kind |-> kind,
     ship_id |-> ship_id, customer_id |-> customer_id, amount |-> amount]

\* a heap order by time and event id alone (no priorities)
BeforeWithoutPriority(a, b) ==
    \/ a.time < b.time
    \/ a.time = b.time /\ a.eid <= b.eid

\* the heap order of simpy: by time, then priority, then event id
Before(a, b) ==
    \/ a.time < b.time
    \/ a.time = b.time /\ a.priority < b.priority
    \/ a.time = b.time /\ a.priority = b.priority /\ a.eid <= b.eid

\* Environment.step: the entry heappop returns
Popped == CHOOSE e \in queue : \A f \in queue : Before(e, f)

\* the step loop of Environment.run is about to pop an entry of this kind
Resumes(kind) == phase = "running" /\ queue # {} /\ Popped.kind = kind

\* self.ships in iteration order (the insertion order of setup)
Roster == [i \in 1..Len(ships_data) |-> ships_data[i].id]

CustomerOrder == [i \in 1..Len(customers_data) |-> customers_data[i].id]

(***************************************************************************)
(* The dispatcher (SupplyChainSimulation.schedule_delivery).               *)
(***************************************************************************)
\* a filter that passes every ship that is not under way, loaded or not
EligibleWhateverTheCargo(ship, t) == ship.busy_until <= t

\* the eligibility filter of schedule_delivery
Eligible(ship, t) == ship.current_cargo > 0 /\ ship.busy_until <= t

\* the filter without the busy_until test
available_ships_with_cargo(t) ==
    SelectSeq([i \in 1..Len(ships_data) |-> ships_data[i].id],
              LAMBDA s : ships[s].current_cargo > 0)

\* the filter without the cargo test
available_ships_not_busy(t) ==
    SelectSeq([i \in 1..Len(ships_data) |-> ships_data[i].id],
              LAMBDA s : ships[s].busy_until <= t)

available_ships(t) == SelectSeq(Roster, LAMBDA s : Eligible(ships[s], t))

\* the first ship of the list, whatever its cargo
FirstListed(list) == list[1]

\* max(available_ships, key = current_cargo): the first ship of the list
\* among those with the most cargo
MostCargo(list) ==
    LET i == CHOOSE k \in 1..Len(list) :
                \A j \in 1..Len(list) :
                    IF j < k
                    THEN ships[list[j]].current_cargo < ships[list[k]].current_cargo
                    ELSE ships[list[j]].current_cargo <= ships[list[k]].current_cargo
    IN  list[i]

\* 0.8 * max_inventory
target_inventory(customer) == (customer.max_inventory * 8) \div 10

\* schedule_delivery returning silently when no ship is available
schedule_delivery_silent(customer_id, customer, t) ==
    LET needed_amount == target_inventory(customer) - customer.current_inventory
        available == available_ships(t)
    IN  IF needed_amount <= 0 \/ available = <<>>
        THEN [log |-> <<>>, started |-> <<>>]
        ELSE [log |-> <<>>,
              started |-> <<[ship_id |-> MostCargo(available),
                             amount |-> needed_amount]>>]

\* schedule_delivery finding no ship whatever the fleet
schedule_delivery_failing(customer_id, customer, t) ==
    LET needed_amount == target_inventory(customer) - customer.current_inventory
    IN  IF needed_amount <= 0
        THEN [log |-> <<>>, started |-> <<>>]
        ELSE [log |-> <<Event(t, "delivery_failed", NoId, customer_id,
                              needed_amount, 0, 0, "")>>,
              started |-> <<>>]

\* schedule_delivery for a customer in state `customer` at time t: the
\* events it logs and the delivery processes it starts (ship, amount)
schedule_delivery(customer_id, customer, t) ==
    LET needed_amount == target_inventory(customer) - customer.current_inventory
        available == available_ships(t)
    IN  IF needed_amount <= 0
        THEN [log |-> <<>>, started |-> <<>>]
        ELSE IF available = <<>>
        THEN [log |-> <<Event(t, "delivery_failed", NoId, customer_id,
                              needed_amount, 0, 0, "")>>,
              started |-> <<>>]
        ELSE [log |-> <<>>,
              started |-> <<[ship_id |-> MostCargo(available),
                             amount |-> needed_amount]>>]

(***************************************************************************)
(* Metrics (SupplyChainSimulation._calculate_metrics).                     *)
(***************************************************************************)
RECURSIVE SumSeq(_)
SumSeq(q) == IF q = <<>> THEN 0 ELSE q[1] + SumSeq(Tail(q))

IsConsumption(e, customer_id) ==
    e.type = "consumption" /\ e.customer_id = customer_id

\* the event types that carry a ship_id column
HasShipId(e) ==
    e.type \in {"delivery_started", "ship_arrived", "delivery_completed",
                "resupply_started", "resupply_completed"}

\* events_df["type"] raises KeyError on a log without events, and
\* events_df["ship_id"] on a log none of whose events names a ship; both are
\* evaluated once per ship of the roster
MetricsKeyError(log) ==
    /\ DOMAIN ships # {}
    /\ \A i \in 1..Len(log) : ~HasShipId(log[i])

customer_metrics(log, customer_id) ==
    LET consumption == SelectSeq(log, LAMBDA e : IsConsumption(e, customer_id))
        levels == [i \in 1..Len(consumption) |-> consumption[i].inventory]
        stockouts == SelectSeq(levels, LAMBDA x : x = 0)
        stockout_hours == Len(stockouts) * simulation_params.time_step
    IN  [inventory_sum |-> SumSeq(levels),
         inventory_count |-> Len(levels),
         min_inventory |-> CHOOSE m \in {levels[i] : i \in 1..Len(levels)} :
                              \A i \in 1..Len(levels) : m <= levels[i],
         stockout_hours |-> stockout_hours,
         \* service_level = 1 - stockout_hours / simulation_duration, as the
         \* fraction <<numerator, denominator>>
         service_level |->
            <<simulation_params.simulation_duration - stockout_hours,
              simulation_params.simulation_duration>>]

ship_metrics(log, ship_id) ==
    LET journeys == ships[ship_id].travel_history
        resolvable == SelectSeq(journeys,
            LAMBDA j : <<j.departure, j.destination>> \in DOMAIN distance_matrix)
    IN  [total_distance |->
            SumSeq([i \in 1..Len(resolvable) |->
                distance_matrix[<<resolvable[i].departure,
                                  resolvable[i].destination>>]]),
         num_deliveries |->
            Len(SelectSeq(log, LAMBDA e :
                e.type = "delivery_completed" /\ e.ship_id = ship_id)),
         num_resupplies |->
            Len(SelectSeq(log, LAMBDA e :
                e.type = "resupply_completed" /\ e.ship_id = ship_id))]

\* the metrics of a log for which MetricsKeyError is false: a log with a
\* delivery_started event (hence a consumption event), or any log when
\* there is no ship.  On a log without events the customer block is skipped
\* and the metrics have the ship_metrics entry only
calculate_metrics(log) ==
    IF log = <<>> THEN [ship_metrics |-> <<>>] ELSE
    LET with_consumption ==
            {c \in DOMAIN customers :
                \E i \in 1..Len(log) : IsConsumption(log[i], c)}
        with_events ==
            {s \in DOMAIN ships :
                \E i \in 1..Len(log) :
                    /\ log[i].ship_id = s
                    /\ log[i].type \in {"delivery_started", "delivery_completed",
                                        "resupply_started", "resupply_completed"}}
        per_customer == [c \in with_consumption |-> customer_metrics(log, c)]
        order == SelectSeq(CustomerOrder, LAMBDA c : c \in with_consumption)
    IN  [total_stockout_events |->
            Len(SelectSeq(log, LAMBDA e :
                e.type = "consumption" /\ e.inventory = 0)),
         customer_metrics |-> per_customer,
         ship_metrics |-> [s \in with_events |-> ship_metrics(log, s)],
         \* the mean of the service levels, as a fraction
         overall_service_level |->
            <<SumSeq([i \in 1..Len(order) |->
                        per_customer[order[i]].service_level[1]]),
              simulation_params.simulation_duration * Len(order)>>]

\* self.results["metrics"] = {}
NoMetrics == <<>>

(***************************************************************************)
(* The engine (SupplyChainSimulation).                                     *)
(***************************************************************************)
\* no ParameterStudy object
NoStudy == <<>>

\* SupplyChainSimulation.__init__: the configuration is loaded, there are no
\* entities and no environment yet
Init ==
    /\ ships_data \in ShipRosters
    /\ customers_data \in CustomerLists
    /\ distance_matrix \in DistanceMatrices
    /\ simulation_params \in SimulationParams
    /\ study = NoStudy
    /\ save_results = "saves"
    /\ ships = <<>>
    /\ customers = <<>>
    /\ events = <<>>
    /\ metrics = NoMetrics
    /\ now = 0
    /\ queue = {}
    /\ eid = 0
    /\ phase = "constructed"
    /\ error = ""
    /\ runs = <<>>

\* a setup that builds the ships only when there are none yet
setup_ships_once ==
    IF ships # <<>> THEN ships
    ELSE [id \in {ships_data[i].id : i \in 1..Len(ships_data)} |->
            Ship(ships_data[CHOOSE i \in 1..Len(ships_data) :
                                ships_data[i].id = id])]

\* the fields setup reads from a ship record and from a customer record
\* with [ ] (initial_cargo is read with a default), and the index of the
\* first record that lacks one of them, 0 when there is none
ShipRequired == {"id", "name", "capacity", "speed", "initial_location"}

CustomerRequired == {"id", "name", "location", "demand_rate",
                     "initial_inventory", "min_inventory", "max_inventory"}

FirstMalformed(records, required) ==
    LET bad == {i \in 1..Len(records) : ~(required \subseteq DOMAIN records[i])}
    IN  IF bad = {} THEN 0 ELSE CHOOSE i \in bad : \A j \in bad : i <= j

\* SupplyChainSimulation.setup, interrupted by the KeyError of record k + 1:
\* the entities of the first k records
setup_ships_until(k) ==
    [id \in {ships_data[i].id : i \in 1..k} |->
        Ship(ships_data[CHOOSE i \in 1..k : ships_data[i].id = id])]

setup_customers_until(k) ==
    [id \in {customers_data[i].id : i \in 1..k} |->
        CustomerSite(customers_data[
            CHOOSE i \in 1..k : customers_data[i].id = id])]

\* SupplyChainSimulation.setup: the entities built from the configuration
setup_ships ==
    [id \in {ships_data[i].id : i \in 1..Len(ships_data)} |->
        Ship(ships_data[CHOOSE i \in 1..Len(ships_data) : ships_data[i].id = id])]

setup_customers ==
    [id \in {customers_data[i].id : i \in 1..Len(customers_data)} |->
        CustomerSite(customers_data[
            CHOOSE i \in 1..Len(customers_data) : customers_data[i].id = id])]

\* run() with the stop event one hour after the horizon
StartRunLate ==
    LET n == Len(customers_data)
        duration == simulation_params.simulation_duration
        processes ==
            {Scheduled(0, URGENT, i - 1, "consumption_start", NoId,
                       customers_data[i].id, 0) : i \in 1..n}
    IN  /\ ships' = setup_ships
        /\ customers' = setup_customers
        /\ events' = <<>>
        /\ metrics' = NoMetrics
        /\ now' = 0
        /\ IF duration <= 0
           THEN /\ queue' = processes
                /\ eid' = n
                /\ phase' = "raised"
                /\ error' = "ValueError: until must be > the current simulation time"
           ELSE /\ queue' = processes \cup
                        {Scheduled(Ticks(duration + 1), URGENT, n, "until",
                                   NoId, NoId, 0)}
                /\ eid' = n + 1
                /\ phase' = "running"
                /\ error' = ""

\* run(), up to the first step of env.run: setup (a KeyError on the first
\* record that lacks a field leaves the entities built so far and the old
\* results), one consumption process per customer (an URGENT Initialize
\* event each, at time 0), the lookup of simulation_duration (KeyError when
\* absent), and env.run(until = simulation_duration), which raises
\* ValueError when the horizon is not after the current time 0 and else
\* schedules the URGENT stop event at the horizon
StartRun ==
    LET n == Len(customers_data)
        bad_ship == FirstMalformed(ships_data, ShipRequired)
        bad_customer == FirstMalformed(customers_data, CustomerRequired)
        processes ==
            {Scheduled(0, URGENT, i - 1, "consumption_start", NoId,
                       customers_data[i].id, 0) : i \in 1..n}
    IN  /\ now' = 0
        /\ IF bad_ship # 0
           THEN /\ ships' = setup_ships_until(bad_ship - 1)
                /\ UNCHANGED <<customers, events, metrics>>
                /\ queue' = {}
                /\ eid' = 0
                /\ phase' = "raised"
                /\ error' = "KeyError"
           ELSE IF bad_customer # 0
           THEN /\ ships' = setup_ships
                /\ customers' = setup_customers_until(bad_customer - 1)
                /\ UNCHANGED <<events, metrics>>
                /\ queue' = {}
                /\ eid' = 0
                /\ phase' = "raised"
                /\ error' = "KeyError"
           ELSE /\ ships' = setup_ships
                /\ customers' = setup_customers
                /\ events' = <<>>
                /\ metrics' = NoMetrics
                /\ IF "simulation_duration" \notin DOMAIN simulation_params
                   THEN /\ queue' = processes
                        /\ eid' = n
                        /\ phase' = "raised"
                        /\ error' = "KeyError"
                   ELSE IF simulation_params.simulation_duration <= 0
                   THEN /\ queue' = processes
                        /\ eid' = n
                        /\ phase' = "raised"
                        /\ error' = "ValueError: until must be > the current simulation time"
                   ELSE /\ queue' = processes \cup
                                {Scheduled(Ticks(simulation_params.simulation_duration),
                                           URGENT, n, "until", NoId, NoId, 0)}
                        /\ eid' = n + 1
                        /\ phase' = "running"
                        /\ error' = ""

Run ==
    /\ phase = "constructed"
    /\ StartRun
    /\ UNCHANGED <<config, runs>>

\* customer_consumption_process with a time step of one hour when the
\* parameters have none
ConsumptionStart_default_step ==
    /\ Resumes("consumption_start")
    /\ LET e == Popped
           time_step == IF "time_step" \in DOMAIN simulation_params
                        THEN simulation_params.time_step ELSE 1
       IN  /\ now' = e.time
           /\ queue' = (queue \ {e}) \cup
                {Scheduled(e.time + Ticks(time_step), NORMAL,
                           eid, "consumption_tick", NoId, e.customer_id, 0)}
           /\ eid' = eid + 1
    /\ UNCHANGED <<config, ships, customers, events, metrics, phase, error, runs>>

\* customer_consumption_process up to its first yield; the lookup of
\* time_step raises KeyError when the parameters have none, and the process
\* fails (its event is scheduled, and raises when it is processed)
ConsumptionStart ==
    /\ Resumes("consumption_start")
    /\ LET e == Popped
       IN  /\ now' = e.time
           /\ queue' = (queue \ {e}) \cup
                {IF "time_step" \in DOMAIN simulation_params
                 THEN Scheduled(e.time + Ticks(simulation_params.time_step),
                                NORMAL, eid, "consumption_tick", NoId,
                                e.customer_id, 0)
                 ELSE Scheduled(e.time, NORMAL, eid, "process_failed", NoId,
                                e.customer_id, 0)}
           /\ eid' = eid + 1
    /\ UNCHANGED <<config, ships, customers, events, metrics, phase, error, runs>>

\* one turn of the loop of customer_consumption_process: consume, log,
\* dispatch when below the threshold, wait for the next time step
ConsumptionTick ==
    /\ Resumes("consumption_tick")
    /\ LET e == Popped
           t == e.time
           c == e.customer_id
           time_step == simulation_params.time_step
           consumed == consume(customers[c], time_step, t)
           customer == consumed.customer
           logged == log_event(events,
                Event(t, "consumption", NoId, c, consumed.result,
                      customer.current_inventory, 0, ""))
           dispatch ==
                IF days_of_supply_below(customer,
                        simulation_params.resupply_threshold_hours)
                THEN schedule_delivery(c, customer, t)
                ELSE [log |-> <<>>, started |-> <<>>]
           k == Len(dispatch.started)
       IN  /\ now' = t
           /\ customers' = [customers EXCEPT ![c] = customer]
           /\ events' = logged \o dispatch.log
           /\ queue' = (queue \ {e})
                \cup {Scheduled(t, URGENT, eid + i - 1, "delivery_start",
                                dispatch.started[i].ship_id, c,
                                dispatch.started[i].amount) : i \in 1..k}
                \cup {Scheduled(t + Ticks(time_step), NORMAL, eid + k,
                                "consumption_tick", NoId, c, 0)}
           /\ eid' = eid + k + 1
    /\ UNCHANGED <<config, ships, metrics, phase, error, runs>>

\* a process whose generator raises fails: its Process event is scheduled
\* (NORMAL, at the current time) with the exception as its value
Failed(t, id, ship_id, customer_id) ==
    Scheduled(t, NORMAL, id, "process_failed", ship_id, customer_id, 0)

\* a delivery_process whose travel_to moves the ship before it looks up the
\* route
DeliveryStart_moving_first ==
    /\ Resumes("delivery_start")
    /\ LET e == Popped
           t == e.time
           ship == ships[e.ship_id]
           customer == customers[e.customer_id]
       IN  /\ now' = t
           /\ events' = log_event(events,
                Event(t, "delivery_started", e.ship_id, e.customer_id,
                      e.amount, 0, ship.current_cargo, ""))
           /\ IF HasRoute(ship, customer.location)
              THEN LET moved == travel_to(ship, customer.location, t)
                   IN  /\ ships' = [ships EXCEPT ![e.ship_id] = moved]
                       /\ queue' = (queue \ {e}) \cup
                            {Scheduled(t + (moved.busy_until - t), NORMAL, eid,
                                       "delivery_arrived", e.ship_id,
                                       e.customer_id, e.amount)}
              ELSE /\ ships' = [ships EXCEPT
                            ![e.ship_id].current_location = customer.location]
                   /\ queue' = (queue \ {e}) \cup
                        {Failed(t, eid, e.ship_id, e.customer_id)}
           /\ eid' = eid + 1
    /\ UNCHANGED <<config, customers, metrics, phase, error, runs>>

\* a process whose generator returns has ended: its Process event is
\* scheduled (NORMAL, at the current time) like that of a failed one
Ended(t, id, ship_id, customer_id) ==
    Scheduled(t, NORMAL, id, "process_done", ship_id, customer_id, 0)

\* delivery_process up to its first yield: log the start, depart
DeliveryStart ==
    /\ Resumes("delivery_start")
    /\ LET e == Popped
           t == e.time
           ship == ships[e.ship_id]
           customer == customers[e.customer_id]
       IN  /\ now' = t
           /\ events' = log_event(events,
                Event(t, "delivery_started", e.ship_id, e.customer_id,
                      e.amount, 0, ship.current_cargo, ""))
           /\ IF HasRoute(ship, customer.location)
              THEN LET moved == travel_to(ship, customer.location, t)
                   IN  /\ ships' = [ships EXCEPT ![e.ship_id] = moved]
                       /\ queue' = (queue \ {e}) \cup
                            {Scheduled(t + (moved.busy_until - t), NORMAL, eid,
                                       "delivery_arrived", e.ship_id,
                                       e.customer_id, e.amount)}
              ELSE /\ ships' = ships
                   /\ queue' = (queue \ {e}) \cup
                        {Failed(t, eid, e.ship_id, e.customer_id)}
           /\ eid' = eid + 1
    /\ UNCHANGED <<config, customers, metrics, phase, error, runs>>

\* delivery_process from the arrival to the wait for the unloading
DeliveryArrived ==
    /\ Resumes("delivery_arrived")
    /\ LET e == Popped
           t == e.time
           ship == ships[e.ship_id]
           customer == customers[e.customer_id]
           delivery_amount == Min(e.amount, ship.current_cargo)
           unloading_time ==
                (delivery_amount * TimeScale) \div simulation_params.unloading_rate
       IN  /\ now' = t
           /\ events' = log_event(events,
                Event(t, "ship_arrived", e.ship_id, e.customer_id, 0, 0, 0,
                      customer.location))
           /\ queue' = (queue \ {e}) \cup
                {Scheduled(t + unloading_time, NORMAL, eid, "delivery_unloaded",
                           e.ship_id, e.customer_id, delivery_amount)}
           /\ eid' = eid + 1
    /\ UNCHANGED <<config, ships, customers, metrics, phase, error, runs>>

\* the test with <= in place of <
LowOnCargoInclusive(ship) == 5 * ship.current_cargo <= ship.capacity

\* ship.current_cargo < 0.2 * ship.capacity
LowOnCargo(ship) == 5 * ship.current_cargo < ship.capacity

\* delivery_process after the unloading wait: unload, receive, log, then
\* start the resupply process or mark the ship idle; the generator returns
\* and the event of the process is scheduled
DeliveryUnloaded ==
    /\ Resumes("delivery_unloaded")
    /\ LET e == Popped
           t == e.time
           unloaded == unload(ships[e.ship_id], e.amount)
           received == receive_delivery(customers[e.customer_id],
                                        unloaded.result, t)
           ship == unloaded.ship
           customer == received.customer
       IN  /\ now' = t
           /\ customers' = [customers EXCEPT ![e.customer_id] = customer]
           /\ events' = log_event(events,
                Event(t, "delivery_completed", e.ship_id, e.customer_id,
                      received.result, customer.current_inventory,
                      ship.current_cargo, ""))
           /\ IF LowOnCargo(ship)
              THEN /\ ships' = [ships EXCEPT ![e.ship_id] = ship]
                   /\ queue' = (queue \ {e}) \cup
                        {Scheduled(t, URGENT, eid, "resupply_start",
                                   e.ship_id, NoId, 0),
                         Ended(t, eid + 1, e.ship_id, e.customer_id)}
                   /\ eid' = eid + 2
              ELSE /\ ships' = [ships EXCEPT
                        ![e.ship_id] = [ship EXCEPT !.busy_until = t]]
                   /\ queue' = (queue \ {e}) \cup
                        {Ended(t, eid, e.ship_id, e.customer_id)}
                   /\ eid' = eid + 1
    /\ UNCHANGED <<config, metrics, phase, error, runs>>

\* ship_resupply_process up to its first yield: log the start, then either
\* depart for the port, or (already there) log the arrival and wait for the
\* port delay
ResupplyStart ==
    /\ Resumes("resupply_start")
    /\ LET e == Popped
           t == e.time
           ship == ships[e.ship_id]
           started == log_event(events,
                Event(t, "resupply_started", e.ship_id, NoId, 0, 0,
                      ship.current_cargo, ship.current_location))
       IN  /\ now' = t
           /\ IF ship.current_location # port_location
              THEN /\ events' = started
                   /\ IF HasRoute(ship, port_location)
                      THEN LET moved == travel_to(ship, port_location, t)
                           IN  /\ ships' = [ships EXCEPT ![e.ship_id] = moved]
                               /\ queue' = (queue \ {e}) \cup
                                    {Scheduled(t + (moved.busy_until - t), NORMAL,
                                               eid, "resupply_arrived",
                                               e.ship_id, NoId, 0)}
                      ELSE /\ ships' = ships
                           /\ queue' = (queue \ {e}) \cup
                                {Failed(t, eid, e.ship_id, NoId)}
              ELSE /\ events' = log_event(started,
                        Event(t, "ship_arrived", e.ship_id, NoId, 0, 0, 0,
                              port_location))
                   /\ ships' = ships
                   /\ queue' = (queue \ {e}) \cup
                        {Scheduled(
                            t + Ticks(simulation_params.port_resupply_delay),
                            NORMAL, eid, "resupply_delayed", e.ship_id, NoId, 0)}
           /\ eid' = eid + 1
    /\ UNCHANGED <<config, customers, metrics, phase, error, runs>>

\* ship_resupply_process from the arrival at the port to the port delay
ResupplyArrived ==
    /\ Resumes("resupply_arrived")
    /\ LET e == Popped
           t == e.time
       IN  /\ now' = t
           /\ events' = log_event(events,
                Event(t, "ship_arrived", e.ship_id, NoId, 0, 0, 0,
                      port_location))
           /\ queue' = (queue \ {e}) \cup
                {Scheduled(t + Ticks(simulation_params.port_resupply_delay),
                           NORMAL, eid, "resupply_delayed", e.ship_id, NoId, 0)}
           /\ eid' = eid + 1
    /\ UNCHANGED <<config, ships, customers, metrics, phase, error, runs>>

\* ship_resupply_process after the port delay: the amount to load is fixed
\* here, before the loading wait
ResupplyDelayed ==
    /\ Resumes("resupply_delayed")
    /\ LET e == Popped
           t == e.time
           ship == ships[e.ship_id]
           available_capacity == ship.capacity - ship.current_cargo
           loading_time ==
                (available_capacity * TimeScale) \div simulation_params.loading_rate
       IN  /\ now' = t
           /\ queue' = (queue \ {e}) \cup
                {Scheduled(t + loading_time, NORMAL, eid, "resupply_loaded",
                           e.ship_id, NoId, available_capacity)}
           /\ eid' = eid + 1
    /\ UNCHANGED <<config, ships, customers, events, metrics, phase, error, runs>>

\* a resupply that ends without loading anything
ResupplyLoaded_without_load ==
    /\ Resumes("resupply_loaded")
    /\ LET e == Popped
           t == e.time
           loaded == ships[e.ship_id]
       IN  /\ now' = t
           /\ ships' = [ships EXCEPT
                ![e.ship_id] = [loaded EXCEPT !.busy_until = t]]
           /\ events' = log_event(events,
                Event(t, "resupply_completed", e.ship_id, NoId, 0, 0,
                      loaded.current_cargo, port_location))
           /\ queue' = (queue \ {e}) \cup {Ended(t, eid, e.ship_id, NoId)}
           /\ eid' = eid + 1
    /\ UNCHANGED <<config, customers, metrics, phase, error, runs>>

\* ship_resupply_process after the loading wait: load, log, mark idle; the
\* generator returns and the event of the process is scheduled
ResupplyLoaded ==
    /\ Resumes("resupply_loaded")
    /\ LET e == Popped
           t == e.time
           loaded == load(ships[e.ship_id], e.amount).ship
       IN  /\ now' = t
           /\ ships' = [ships EXCEPT
                ![e.ship_id] = [loaded EXCEPT !.busy_until = t]]
           /\ events' = log_event(events,
                Event(t, "resupply_completed", e.ship_id, NoId, 0, 0,
                      loaded.current_cargo, port_location))
           /\ queue' = (queue \ {e}) \cup {Ended(t, eid, e.ship_id, NoId)}
           /\ eid' = eid + 1
    /\ UNCHANGED <<config, customers, metrics, phase, error, runs>>

\* Environment.step on the event of a process that has ended: it has no
\* callbacks, the step moves the clock and nothing else
ProcessDone ==
    /\ Resumes("process_done")
    /\ now' = Popped.time
    /\ queue' = queue \ {Popped}
    /\ UNCHANGED <<config, ships, customers, events, metrics, eid, phase,
                   error, runs>>

\* Environment.step on the event of a failed process nobody waits for: the
\* exception is raised out of env.run and out of run()
ProcessFailed ==
    /\ Resumes("process_failed")
    /\ now' = Popped.time
    /\ queue' = queue \ {Popped}
    /\ phase' = "raised"
    /\ error' = IF Popped.ship_id = NoId THEN "KeyError"
                ELSE "ValueError: No route found"
    /\ UNCHANGED <<config, ships, customers, events, metrics, eid, runs>>

\* Environment.step on the stop event: env.run returns at the horizon, and
\* run() computes the metrics (which may raise KeyError), hands the results
\* to save_results of the data source (whose exception is not caught) and
\* returns
Stop ==
    /\ Resumes("until")
    /\ now' = Popped.time
    /\ queue' = queue \ {Popped}
    /\ IF MetricsKeyError(events)
       THEN /\ metrics' = metrics
            /\ phase' = "raised"
            /\ error' = "KeyError"
       ELSE /\ metrics' = calculate_metrics(events)
            /\ IF save_results = "raises"
               THEN /\ phase' = "raised"
                    /\ error' = "OSError: save_results"
               ELSE /\ phase' = "returned"
                    /\ error' = ""
    /\ UNCHANGED <<config, ships, customers, events, eid, runs>>

Step ==
    \/ ConsumptionStart
    \/ ConsumptionTick
    \/ DeliveryStart
    \/ DeliveryArrived
    \/ DeliveryUnloaded
    \/ ResupplyStart
    \/ ResupplyArrived
    \/ ResupplyDelayed
    \/ ResupplyLoaded
    \/ ProcessDone
    \/ ProcessFailed
    \/ Stop

Next == Run \/ Step

Spec == Init /\ [][Next]_vars

(***************************************************************************)
(* run() called again on the same instance, once the previous call has     *)
(* returned or raised.  The results of the previous call are kept in       *)
(* `runs` for comparison; the instance itself keeps nothing but what       *)
(* setup overwrites.                                                       *)
(***************************************************************************)
Results == [events |-> events, metrics |-> metrics, phase |-> phase,
            error |-> error]

Rerun ==
    /\ phase \in {"returned", "raised"}
    /\ Len(runs) < MaxReruns
    /\ runs' = Append(runs, Results)
    /\ StartRun
    /\ UNCHANGED config

\* the configurations of the repeated runs: the longest horizon
InitTwice ==
    /\ Init
    /\ simulation_params.simulation_duration = MaxDuration
    /\ simulation_params.time_step = 1

NextTwice == Next \/ Rerun

SpecTwice == InitTwice /\ [][NextTwice]_vars

(***************************************************************************)
(* Runs on a data source whose save_results may raise (JsonDataSource: the *)
(* results file cannot be opened or the results cannot be serialised).     *)
(***************************************************************************)
InitSave ==
    /\ ships_data \in ShipRosters
    /\ customers_data \in CustomerLists
    /\ distance_matrix \in DistanceMatrices
    /\ simulation_params \in SimulationParams
    /\ simulation_params.simulation_duration = MaxDuration - 1
    /\ study = NoStudy
    /\ save_results \in {"saves", "raises"}
    /\ ships = <<>>
    /\ customers = <<>>
    /\ events = <<>>
    /\ metrics = NoMetrics
    /\ now = 0
    /\ queue = {}
    /\ eid = 0
    /\ phase = "constructed"
    /\ error = ""
    /\ runs = <<>>

SpecSave == InitSave /\ [][Next]_vars

(***************************************************************************)
(* Runs on a configuration in which one record may lack one of the fields  *)
(* the engine reads without a default.  The fleet and the list of          *)
(* customers may be empty, and the horizon may be 0.                       *)
(***************************************************************************)
\* the record without the field
Without(record, field) == [f \in DOMAIN record \ {field} |-> record[f]]

ParamsRequired == {"simulation_duration", "time_step"}

\* what is taken out of a configuration: nothing, a field of the i-th ship
\* record, a field of the i-th customer record, or a parameter
Removals ==
    {<<"none", 0, "">>}
    \cup {<<"ship", i, f>> : i \in 1..2, f \in ShipRequired}
    \cup {<<"customer", i, f>> : i \in 1..2, f \in CustomerRequired}
    \cup {<<"params", 0, f>> : f \in ParamsRequired}

InitMalformed ==
    /\ \E sd \in ShipRosters \cup {<<>>}, cd \in CustomerLists \cup {<<>>},
          sp \in SimulationParams, r \in Removals :
        /\ sp.simulation_duration \in {0, MaxDuration - 1}
        /\ r[1] # "none" => sp.time_step = 2 /\ sp.port_resupply_delay = 0
        /\ r[1] = "ship" => r[2] <= Len(sd)
        /\ r[1] = "customer" => r[2] <= Len(cd)
        /\ ships_data =
                IF r[1] = "ship"
                THEN [sd EXCEPT ![r[2]] = Without(sd[r[2]], r[3])] ELSE sd
        /\ customers_data =
                IF r[1] = "customer"
                THEN [cd EXCEPT ![r[2]] = Without(cd[r[2]], r[3])] ELSE cd
        /\ simulation_params =
                IF r[1] = "params" THEN Without(sp, r[3]) ELSE sp
    /\ distance_matrix \in DistanceMatrices
    /\ study = NoStudy
    /\ save_results = "saves"
    /\ ships = <<>>
    /\ customers = <<>>
    /\ events = <<>>
    /\ metrics = NoMetrics
    /\ now = 0
    /\ queue = {}
    /\ eid = 0
    /\ phase = "constructed"
    /\ error = ""
    /\ runs = <<>>

SpecMalformed == InitMalformed /\ [][Next]_vars

(***************************************************************************)
(* Runs to the longest horizon in which the step loop of Environment.run   *)
(* goes on as long as the queue has an entry (run() was called and         *)
(* env.run pops until the stop event or an exception).                     *)
(***************************************************************************)
InitLive ==
    /\ Init
    /\ simulation_params.simulation_duration = MaxDuration
    /\ simulation_params.time_step = 1
    /\ simulation_params.port_resupply_delay = 0

SpecLive == InitLive /\ [][Next]_vars /\ WF_vars(Next)

(***************************************************************************)
(* ParameterStudy: one engine instance per value of the parameter, each    *)
(* built from the parameters of the data source with the single override   *)
(* and run to completion; the metrics of each run are recorded in `runs`.  *)
(* The data sources of the repository return a new dictionary on every     *)
(* call, so the parameters of the source are the constant study.defaults.  *)
(* An exception of a run leaves ParameterStudy.run (phase "raised").       *)
(***************************************************************************)
\* SupplyChainSimulation.__init__: the parameters with the override applied;
\* the assignment sets the key, whether the parameters held it or not
Override(params, param_name, value) ==
    [k \in DOMAIN params \cup {param_name} |->
        IF k = param_name THEN value ELSE params[k]]

\* the studies explored: a parameter, three values of it (the first and the
\* last equal) and the parameters of the data source
Studies ==
    LET defaults == [simulation_duration |-> MaxDuration, time_step |-> 1,
                     resupply_threshold_hours |-> 6, loading_rate |-> 5,
                     unloading_rate |-> 4, port_resupply_delay |-> 0]
    IN  { [param_name |-> v[1], param_values |-> v[2], defaults |-> defaults] :
            v \in { <<"time_step", <<1, 2, 1>>>>,
                    <<"port_resupply_delay", <<1, 0, 1>>>>,
                    <<"simulation_duration",
                      <<MaxDuration - 1, 1, MaxDuration - 1>>>> } }

\* ParameterStudy.__init__
InitStudy ==
    /\ ships_data \in ShipRosters
    /\ customers_data \in CustomerLists
    /\ distance_matrix \in Routes \cup { r @@ s : <<r, s>> \in Routes \X SelfRoutes }
    /\ study \in Studies
    /\ simulation_params = study.defaults
    /\ save_results = "saves"
    /\ ships = <<>>
    /\ customers = <<>>
    /\ events = <<>>
    /\ metrics = NoMetrics
    /\ now = 0
    /\ queue = {}
    /\ eid = 0
    /\ phase = "idle"
    /\ error = ""
    /\ runs = <<>>

\* a study in which each engine sees the override of the engine before it
\* instead of its own
Construct_previous_override ==
    /\ study # NoStudy
    /\ phase = "idle"
    /\ Len(runs) < Len(study.param_values)
    /\ simulation_params' =
            IF runs = <<>> THEN study.defaults
            ELSE Override(study.defaults, study.param_name,
                          study.param_values[Len(runs)])
    /\ ships' = <<>>
    /\ customers' = <<>>
    /\ events' = <<>>
    /\ metrics' = NoMetrics
    /\ now' = 0
    /\ queue' = {}
    /\ eid' = 0
    /\ phase' = "constructed"
    /\ error' = ""
    /\ UNCHANGED <<ships_data, customers_data, distance_matrix, study,
                   save_results, runs>>

\* one turn of the loop of ParameterStudy.run, up to the call of run(): a
\* new engine with the override of the next value
Construct ==
    /\ study # NoStudy
    /\ phase = "idle"
    /\ Len(runs) < Len(study.param_values)
    /\ simulation_params' =
            Override(study.defaults, study.param_name,
                     study.param_values[Len(runs) + 1])
    /\ ships' = <<>>
    /\ customers' = <<>>
    /\ events' = <<>>
    /\ metrics' = NoMetrics
    /\ now' = 0
    /\ queue' = {}
    /\ eid' = 0
    /\ phase' = "constructed"
    /\ error' = ""
    /\ UNCHANGED <<ships_data, customers_data, distance_matrix, study,
                   save_results, runs>>

\* the rest of the turn, once run() has returned: the metrics are recorded
\* with the value of the parameter; after the last value the study returns
Record ==
    /\ study # NoStudy
    /\ phase = "returned"
    /\ runs' = Append(runs,
            [param_name |-> study.param_name,
             param_value |-> study.param_values[Len(runs) + 1],
             metrics |-> metrics])
    /\ phase' = IF Len(runs) + 1 = Len(study.param_values)
                THEN "finished" ELSE "idle"
    /\ UNCHANGED <<config, ships, customers, events, metrics, now, queue, eid,
                   error>>

NextStudy == Next \/ Construct \/ Record

SpecStudy == InitStudy /\ [][NextStudy]_vars

(***************************************************************************)
(* Properties.                                                             *)
(***************************************************************************)
Horizon == Ticks(simulation_params.simulation_duration)

\* env.run returned at the horizon (run() then returned, or raised in the
\* metrics)
HorizonReached ==
    \/ phase = "returned"
    \/ phase = "raised" /\ error = "KeyError"

RouteFailure == phase = "raised" /\ error = "ValueError: No route found"

Logged(type) == \E i \in 1..Len(events) : events[i].type = type

IsPrefix(p, q) == Len(p) <= Len(q) /\ \A i \in 1..Len(p) : p[i] = q[i]

\* C1: in every state of a run every ship has 0 <= current_cargo <= capacity
\* (configurations with non-negative quantities; the initial cargo may exceed
\* the capacity)
C1_ShipCargoWithinCapacity ==
    \A s \in DOMAIN ships :
        /\ 0 <= ships[s].current_cargo
        /\ ships[s].current_cargo <= ships[s].capacity

\* a ship configured with more cargo than capacity has delivered and has
\* been reloaded at the port
C1_Witness ==
    /\ Logged("delivery_completed")
    /\ \E i \in 1..Len(events), k \in 1..Len(ships_data) :
        /\ events[i].type = "resupply_completed"
        /\ events[i].ship_id = ships_data[k].id
        /\ ships_data[k].initial_cargo > ships_data[k].capacity

\* C2: in every state of a run, from the state setup builds, every customer
\* has 0 <= current_inventory <= max_inventory
C2_CustomerInventoryWithinBounds ==
    phase = "running" =>
        \A c \in DOMAIN customers :
            /\ 0 <= customers[c].current_inventory
            /\ customers[c].current_inventory <= customers[c].max_inventory

\* C3: two dispatches at the same simulated time never select the same ship
C3_NoDoubleDispatchAtOneInstant ==
    \A i, j \in 1..Len(events) :
        (/\ i < j
         /\ events[i].type = "delivery_started"
         /\ events[j].type = "delivery_started"
         /\ events[i].time = events[j].time)
        => events[i].ship_id # events[j].ship_id

\* C4: a delivery_started event is logged only for a ship that had
\* busy_until <= now and current_cargo > 0 at that time, and the ship of a
\* delivery process that schedule_delivery has started satisfies the same
C4_DispatchOnlyEligibleShips ==
    [][/\ \A e \in queue' :
            e.kind = "delivery_start" =>
                /\ ships'[e.ship_id].busy_until <= e.time
                /\ ships'[e.ship_id].current_cargo > 0
       /\ (/\ Len(events') = Len(events) + 1
           /\ events'[Len(events')].type = "delivery_started")
          => LET started == events'[Len(events')]
             IN  /\ started.time = now'
                 /\ ships[started.ship_id].busy_until <= started.time
                 /\ ships[started.ship_id].current_cargo > 0]_vars

\* a delivery has just started while another ship was under way or empty
C4_Witness ==
    /\ events # <<>>
    /\ events[Len(events)].type = "delivery_started"
    /\ events[Len(events)].time = now
    /\ \E s \in DOMAIN ships :
        /\ s # events[Len(events)].ship_id
        /\ ships[s].busy_until > now
    /\ \E i \in 1..Len(events) : events[i].type = "delivery_failed"

\* C5: the log only grows by appending, and its timestamps are
\* non-decreasing in the order of the log
C5_LogGrowsInTimeOrder ==
    [][/\ IsPrefix(events, events')
       /\ \A i \in 1..Len(events') - 1 :
            events'[i].time <= events'[i + 1].time]_vars

\* a finished run whose log has events sharing a time and events at
\* different times
C5_Witness ==
    /\ phase = "returned"
    /\ \E i \in 1..Len(events) - 1 : events[i].time = events[i + 1].time
    /\ \E i \in 1..Len(events) - 1 : events[i].time < events[i + 1].time

\* C6, as stated: among the resumptions scheduled for the same time, the one
\* executed next is the one submitted first
C6_SubmissionOrderAtOneInstant ==
    (phase = "running" /\ queue # {}) =>
        \A f \in queue : f.time = Popped.time => Popped.eid <= f.eid

\* C6, amended: the first step of a started process runs before the
\* timeouts already queued for that time, so delivery_started directly
\* follows the consumption event of the dispatching customer, and
\* resupply_started the delivery_completed of its ship; consumption events
\* sharing a time are logged in the order the customers' processes were
\* started
C6_StartedProcessRunsFirst ==
    /\ \A i \in 1..Len(events) :
        events[i].type = "delivery_started" =>
            /\ i > 1
            /\ events[i - 1].type = "consumption"
            /\ events[i - 1].customer_id = events[i].customer_id
            /\ events[i - 1].time = events[i].time
    /\ \A i \in 1..Len(events) :
        events[i].type = "resupply_started" =>
            /\ i > 1
            /\ events[i - 1].type = "delivery_completed"
            /\ events[i - 1].ship_id = events[i].ship_id
            /\ events[i - 1].time = events[i].time
    /\ \A i, j \in 1..Len(events) :
        (/\ i < j
         /\ events[i].type = "consumption"
         /\ events[j].type = "consumption"
         /\ events[i].time = events[j].time)
        => \E m, n \in 1..Len(CustomerOrder) :
            /\ m < n
            /\ CustomerOrder[m] = events[i].customer_id
            /\ CustomerOrder[n] = events[j].customer_id

\* a delivery started by the first customer's tick is logged between the
\* two customers' consumption events of one time
C6_Witness ==
    \E i \in 2..Len(events) - 1 :
        /\ events[i].type = "delivery_started"
        /\ events[i - 1].type = "consumption"
        /\ events[i + 1].type = "consumption"
        /\ events[i - 1].time = events[i + 1].time
        /\ events[i - 1].customer_id # events[i + 1].customer_id

\* C7: no step runs and no event is logged at a time after the horizon, and
\* the step that ends the run leaves the entities and the log as they were
C7_NothingRunsPastHorizon ==
    [][/\ now' <= Horizon
       /\ \A i \in 1..Len(events') : events'[i].time <= Horizon
       /\ (phase = "running" /\ phase' # "running") =>
            /\ ships' = ships
            /\ customers' = customers
            /\ events' = events]_vars

\* the run has ended at the horizon with a resumption still queued for a
\* later time, after deliveries were made
C7_Witness ==
    /\ HorizonReached
    /\ now = Horizon
    /\ Logged("delivery_completed")
    /\ \E f \in queue : f.time > Horizon

\* C8, as stated: when time_step divides simulation_duration, each customer
\* has a consumption event at t = simulation_duration
C8_TickAtHorizonRuns ==
    (/\ phase = "returned"
     /\ simulation_params.simulation_duration % simulation_params.time_step = 0)
    => \A c \in DOMAIN customers :
        \E i \in 1..Len(events) :
            IsConsumption(events[i], c) /\ events[i].time = Horizon

\* C8, amended: the run stops when time reaches the horizon, before any
\* resumption queued for that time: every event is logged before the
\* horizon, and the consumption events of each customer are those of the
\* multiples of time_step strictly below simulation_duration
C8_HorizonIsExclusive ==
    HorizonReached =>
        /\ \A i \in 1..Len(events) : events[i].time < Horizon
        /\ \A c \in DOMAIN customers :
            {events[i].time : i \in {k \in 1..Len(events) :
                                        IsConsumption(events[k], c)}}
            = {Ticks(k * simulation_params.time_step) :
                k \in {m \in 1..simulation_params.simulation_duration :
                        m * simulation_params.time_step
                            < simulation_params.simulation_duration}}

\* the run has stopped at a horizon that is a multiple of time_step, with
\* the ticks of that time still queued
C8_Witness ==
    /\ HorizonReached
    /\ simulation_params.simulation_duration % simulation_params.time_step = 0
    /\ Logged("consumption")
    /\ \A c \in DOMAIN customers :
        \E f \in queue :
            /\ f.kind = "consumption_tick"
            /\ f.customer_id = c
            /\ f.time = Horizon

\* C9: a run repeated with the same configuration ends with the same event
\* log, the same metrics and the same outcome as the run before
C9_RerunReproducesResults ==
    (phase \in {"returned", "raised"}) =>
        \A i \in 1..Len(runs) : runs[i] = Results

\* the second run of an instance has returned, with deliveries and a
\* resupply made
C9_Witness ==
    /\ Len(runs) = 1
    /\ phase = "returned"
    /\ Logged("delivery_completed")
    /\ Logged("resupply_started")

\* no entry of the distance matrix names the location
MissingLocation(location) ==
    \A route \in DOMAIN distance_matrix :
        route[1] # location /\ route[2] # location

\* C10: when a process has failed on a travel to a location missing from
\* the distance matrix, only that process ends: the step that takes its
\* failure leaves the run going, with the log as it was
C10_RouteFailureIsIsolated ==
    [][(/\ Resumes("process_failed")
        /\ Popped.customer_id # NoId
        /\ MissingLocation(customers[Popped.customer_id].location))
       => (phase' = "running" /\ error' = "" /\ events' = events)]_vars

\* the customer whose consumption tick is about to run, as the tick's
\* consumption leaves it
Ticking == consume(customers[Popped.customer_id], simulation_params.time_step,
                   Popped.time).customer

\* the tick about to run invokes the dispatcher, with needed_amount > 0
DispatchDue ==
    /\ Resumes("consumption_tick")
    /\ Ticking.demand_rate > 0
    /\ Ticking.current_inventory
            < simulation_params.resupply_threshold_hours * Ticking.demand_rate
    /\ 10 * Ticking.current_inventory < 8 * Ticking.max_inventory

\* some ship has cargo and is not busy at time t
SomeShipFree(t) ==
    \E s \in DOMAIN ships :
        ships[s].current_cargo > 0 /\ ships[s].busy_until <= t

\* the entries the step has added to the queue
Submitted == queue' \ queue

\* those of them that resume a process (the others are the events of
\* processes that have ended)
Resumptions == {e \in Submitted : e.kind # "process_done"}

\* C11: when the dispatcher is invoked with needed_amount > 0 and no ship
\* has cargo and is free, it logs exactly one delivery_failed event for the
\* customer at the current time (after the consumption event of the tick),
\* starts no delivery process, changes no ship and no customer (beyond the
\* tick's own consumption), and the run goes on
C11_NoShipLogsOneFailure ==
    [][(DispatchDue /\ ~SomeShipFree(Popped.time)) =>
        /\ Len(events') = Len(events) + 2
        /\ IsPrefix(events, events')
        /\ events'[Len(events) + 1].type = "consumption"
        /\ events'[Len(events) + 2] =
                Event(now', "delivery_failed", NoId, Popped.customer_id,
                      (8 * Ticking.max_inventory) \div 10
                          - Ticking.current_inventory, 0, 0, "")
        /\ now' = Popped.time
        /\ \A e \in Submitted : e.kind = "consumption_tick"
        /\ ships' = ships
        /\ customers' = [customers EXCEPT ![Popped.customer_id] = Ticking]
        /\ phase' = "running"]_vars

\* a dispatch has just failed while a ship with cargo was under way
C11_Witness ==
    /\ phase = "running"
    /\ events # <<>>
    /\ events[Len(events)].type = "delivery_failed"
    /\ events[Len(events)].time = now
    /\ \E s \in DOMAIN ships :
        ships[s].current_cargo > 0 /\ ships[s].busy_until > now

AllShipsStartEmpty ==
    \A k \in 1..Len(ships_data) : ships_data[k].initial_cargo = 0

\* the inventory is below the threshold of the customer (days_of_supply
\* below resupply_threshold_days)
BelowThreshold(c, inventory) ==
    /\ customers[c].demand_rate > 0
    /\ inventory < simulation_params.resupply_threshold_hours
                        * customers[c].demand_rate

\* needed_amount > 0 at this inventory
BelowTarget(c, inventory) == 10 * inventory < 8 * customers[c].max_inventory

\* the consumption events of the log that leave the customer below its
\* threshold
TicksBelowThreshold ==
    {i \in 1..Len(events) :
        /\ events[i].type = "consumption"
        /\ BelowThreshold(events[i].customer_id, events[i].inventory)}

EventsAt(type, c, t) ==
    {i \in 1..Len(events) :
        /\ events[i].type = type
        /\ events[i].customer_id = c
        /\ events[i].time = t}

\* C12, as stated: when every ship starts without cargo, no delivery_started
\* event is logged, and the first tick that leaves a customer below the
\* threshold has exactly one delivery_failed event of that customer
\* (configurations with initial inventories within the maximum)
C12_FirstTickBelowThresholdFails ==
    (/\ AllShipsStartEmpty
     /\ \A k \in 1..Len(customers_data) :
            customers_data[k].initial_inventory <= customers_data[k].max_inventory)
    => /\ ~Logged("delivery_started")
       /\ \A i \in TicksBelowThreshold :
            (\A j \in TicksBelowThreshold :
                events[j].customer_id = events[i].customer_id => i <= j)
            => Cardinality(EventsAt("delivery_failed", events[i].customer_id,
                                    events[i].time)) = 1

\* C12, amended: when every ship starts without cargo, no delivery_started
\* event is logged, and a tick that leaves a customer below the threshold is
\* followed at once by one delivery_failed event of that customer when its
\* inventory is below 0.8 * max_inventory, and has no delivery_failed event
\* when it is not
C12_EmptyFleetFailsWhenNeeded ==
    AllShipsStartEmpty =>
        /\ ~Logged("delivery_started")
        /\ \A i \in TicksBelowThreshold :
            LET c == events[i].customer_id
                failures == EventsAt("delivery_failed", c, events[i].time)
            IN  IF BelowTarget(c, events[i].inventory)
                THEN failures = {i + 1}
                ELSE failures = {}

\* a run without cargo in any ship has reached its horizon, a tick below the
\* threshold having logged a failure and another none
C12_Witness ==
    /\ AllShipsStartEmpty
    /\ HorizonReached
    /\ Logged("delivery_failed")
    /\ \E i \in TicksBelowThreshold :
        ~BelowTarget(events[i].customer_id, events[i].inventory)

\* the events that record a dispatch attempt
IsAttempt(e) == e.type \in {"delivery_started", "delivery_failed"}

\* C13: each tick that leaves a customer below the threshold with
\* needed_amount > 0 yields exactly one dispatch attempt of that customer at
\* that time, a delivery_started or a delivery_failed event logged directly
\* after the consumption event (or the started delivery process is about to
\* log it), and there is no dispatch attempt at any other moment
C13_RetryIsTickDriven ==
    /\ \A i \in TicksBelowThreshold :
        LET c == events[i].customer_id
            t == events[i].time
        IN  BelowTarget(c, events[i].inventory) =>
                IF i = Len(events)
                THEN /\ phase = "running"
                     /\ Popped.kind = "delivery_start"
                     /\ Popped.customer_id = c
                     /\ Popped.time = t
                     /\ EventsAt("delivery_started", c, t) = {}
                     /\ EventsAt("delivery_failed", c, t) = {}
                ELSE EventsAt("delivery_started", c, t)
                        \cup EventsAt("delivery_failed", c, t) = {i + 1}
    /\ \A j \in 1..Len(events) :
        IsAttempt(events[j]) =>
            /\ j - 1 \in TicksBelowThreshold
            /\ events[j - 1].customer_id = events[j].customer_id
            /\ events[j - 1].time = events[j].time
            /\ BelowTarget(events[j].customer_id, events[j - 1].inventory)
    /\ \A e \in queue :
        e.kind = "delivery_start" =>
            /\ Len(events) \in TicksBelowThreshold
            /\ events[Len(events)].customer_id = e.customer_id
            /\ events[Len(events)].time = e.time

\* a customer whose dispatch failed at one tick got a delivery started at a
\* later tick
C13_Witness ==
    \E i, j \in 1..Len(events) :
        /\ i < j
        /\ events[i].type = "delivery_failed"
        /\ events[j].type = "delivery_started"
        /\ events[i].customer_id = events[j].customer_id
        /\ events[i].time < events[j].time

\* C14: when the tick at time t leaves a customer below the threshold with
\* needed_amount > 0 and some ship has cargo and is free, a delivery process
\* for that customer is started and is the next to run, and its first step
\* logs delivery_started for that customer with time t
C14_DeliveryStartsAtTheTick ==
    [][/\ (DispatchDue /\ SomeShipFree(Popped.time)) =>
            /\ phase' = "running"
            /\ \E e \in Submitted :
                /\ e.kind = "delivery_start"
                /\ e.customer_id = Popped.customer_id
                /\ e.time = Popped.time
                /\ e.amount = (8 * Ticking.max_inventory) \div 10
                                - Ticking.current_inventory
                /\ Popped' = e
            /\ now' = Popped.time
       /\ Resumes("delivery_start") =>
            /\ Len(events') = Len(events) + 1
            /\ events'[Len(events')].type = "delivery_started"
            /\ events'[Len(events')].customer_id = Popped.customer_id
            /\ events'[Len(events')].amount = Popped.amount
            /\ events'[Len(events')].time = Popped.time
            /\ Popped.time = now]_vars

\* a customer that was above the threshold after its first tick has a
\* delivery started at the time of a later tick
C14_Witness ==
    \E i, j \in 1..Len(events) :
        /\ i < j
        /\ events[i].type = "consumption"
        /\ ~BelowThreshold(events[i].customer_id, events[i].inventory)
        /\ events[j].type = "delivery_started"
        /\ events[j].customer_id = events[i].customer_id
        /\ events[j - 1].type = "consumption"
        /\ events[j - 1].time = events[j].time
        /\ events[j].time = now

\* C15: the ship of a delivery process started by the dispatcher has at
\* least as much cargo as every ship that has cargo and is free at that time
C15_ChosenShipHasMostCargo ==
    [][\A e \in Submitted :
        e.kind = "delivery_start" =>
            /\ e.ship_id \in DOMAIN ships
            /\ e.time = now'
            /\ ships' = ships
            /\ \A s \in DOMAIN ships :
                (ships[s].current_cargo > 0 /\ ships[s].busy_until <= e.time)
                => ships[s].current_cargo <= ships[e.ship_id].current_cargo]_vars

\* the dispatcher has just chosen a ship that is not the first of the
\* roster, the first being free with less cargo
C15_Witness ==
    /\ Resumes("delivery_start")
    /\ Popped.ship_id # Roster[1]
    /\ ships[Roster[1]].busy_until <= now
    /\ ships[Roster[1]].current_cargo > 0
    /\ ships[Roster[1]].current_cargo < ships[Popped.ship_id].current_cargo

\* C16: among the free ships that tie for the most cargo, the dispatcher
\* chooses the one with the lowest id, whatever the order of the roster
C16_TieGoesToLowestId ==
    [][\A e \in Submitted :
        e.kind = "delivery_start" =>
            \A s \in DOMAIN ships :
                (/\ ships[s].current_cargo > 0
                 /\ ships[s].busy_until <= e.time
                 /\ ships[s].current_cargo = ships[e.ship_id].current_cargo)
                => e.ship_id <= s]_vars

\* the events of the log of this type, ship and customer
EventsOf(log, type, s, c) ==
    {i \in 1..Len(log) :
        log[i].type = type /\ log[i].ship_id = s /\ log[i].customer_id = c}

\* C17: a delivery process logs delivery_started, then ship_arrived at the
\* start time + distance / speed, which is the arrival_time of the journey it
\* records, then delivery_completed at the arrival time
\* + min(needed, cargo at arrival) / unloading_rate; in the log every
\* ship_arrived at a customer and every delivery_completed has an earlier
\* delivery_started (and ship_arrived) of the same ship and customer
C17_DeliveryEventsInOrder ==
    [][/\ (/\ Resumes("delivery_start")
            /\ <<ships[Popped.ship_id].current_location,
                  customers[Popped.customer_id].location>>
                    \in DOMAIN distance_matrix) =>
            LET s == Popped.ship_id
                c == Popped.customer_id
                distance ==
                    distance_matrix[<<ships[s].current_location,
                                      customers[c].location>>]
                arrival == Popped.time
                            + (distance * TimeScale) \div ships[s].speed
                journeys == ships'[s].travel_history
            IN  /\ events' = Append(events, events'[Len(events')])
                /\ events'[Len(events')].type = "delivery_started"
                /\ events'[Len(events')].time = Popped.time
                /\ events'[Len(events')].ship_id = s
                /\ events'[Len(events')].customer_id = c
                /\ Len(journeys) = Len(ships[s].travel_history) + 1
                /\ journeys[Len(journeys)].departure_time = Popped.time
                /\ journeys[Len(journeys)].arrival_time = arrival
                /\ \E e \in Submitted :
                    /\ e.kind = "delivery_arrived"
                    /\ e.ship_id = s /\ e.customer_id = c
                    /\ e.amount = Popped.amount
                    /\ e.time = arrival
       /\ Resumes("delivery_arrived") =>
            LET s == Popped.ship_id
                c == Popped.customer_id
                cargo == ships[s].current_cargo
                delivery_amount ==
                    IF Popped.amount <= cargo THEN Popped.amount ELSE cargo
            IN  /\ events' = Append(events, events'[Len(events')])
                /\ events'[Len(events')].type = "ship_arrived"
                /\ events'[Len(events')].time = Popped.time
                /\ events'[Len(events')].ship_id = s
                /\ events'[Len(events')].customer_id = c
                /\ \E e \in Submitted :
                    /\ e.kind = "delivery_unloaded"
                    /\ e.ship_id = s /\ e.customer_id = c
                    /\ e.time = Popped.time
                        + (delivery_amount * TimeScale)
                            \div simulation_params.unloading_rate
       /\ Resumes("delivery_unloaded") =>
            /\ events' = Append(events, events'[Len(events')])
            /\ events'[Len(events')].type = "delivery_completed"
            /\ events'[Len(events')].time = Popped.time
            /\ events'[Len(events')].ship_id = Popped.ship_id
            /\ events'[Len(events')].customer_id = Popped.customer_id
       /\ \A k \in 1..Len(events') :
            LET s == events'[k].ship_id
                c == events'[k].customer_id
            IN  /\ (events'[k].type = "ship_arrived" /\ c # NoId) =>
                    \E i \in EventsOf(events', "delivery_started", s, c) :
                        i < k
                /\ events'[k].type = "delivery_completed" =>
                    \E i \in EventsOf(events', "delivery_started", s, c),
                       j \in EventsOf(events', "ship_arrived", s, c) :
                        i < j /\ j < k
       /\ \A s \in DOMAIN ships', c \in DOMAIN customers' :
            /\ Cardinality(EventsOf(events', "ship_arrived", s, c))
                <= Cardinality(EventsOf(events', "delivery_started", s, c))
            /\ Cardinality(EventsOf(events', "delivery_completed", s, c))
                <= Cardinality(EventsOf(events', "ship_arrived", s, c))]_vars

\* a delivery that asked for more than the ship carried has been completed
\* by the faster ship after a voyage
C17_Witness ==
    \E i, k \in 1..Len(events) :
        /\ i < k
        /\ events[i].type = "delivery_started"
        /\ events[k].type = "delivery_completed"
        /\ events[i].ship_id = events[k].ship_id
        /\ events[i].customer_id = events[k].customer_id
        /\ ships[events[i].ship_id].speed > 1
        /\ events[i].amount > events[i].cargo
        /\ events[i].time < events[k].time

\* the sum of the amounts of the events of this type and customer
RECURSIVE AmountOf(_, _, _)
AmountOf(log, type, c) ==
    IF log = <<>> THEN 0
    ELSE (IF log[1].type = type /\ log[1].customer_id = c
          THEN log[1].amount ELSE 0)
         + AmountOf(Tail(log), type, c)

\* C18: at the end of the unloading the ship's cargo falls by the amount
\* unloaded (the amount fixed at the arrival, or the cargo left if less), the
\* customer's inventory rises by the amount received, which is the amount
\* delivery_completed reports, and the amount unloaded is the amount received
\* plus the amount that did not fit under max_inventory; no other ship or
\* customer changes.  Over the run each customer's inventory is its initial
\* inventory, less the amounts consumed, plus the amounts delivered
C18_MassBalance ==
    [][/\ Resumes("delivery_unloaded") =>
            LET s == Popped.ship_id
                c == Popped.customer_id
                cargo == ships[s].current_cargo
                unloaded == IF Popped.amount <= cargo THEN Popped.amount
                            ELSE cargo
                space == customers[c].max_inventory
                            - customers[c].current_inventory
                clamped == IF unloaded > space THEN unloaded - space ELSE 0
                completed == events'[Len(events')]
                order == customers'[c].orders_history[
                            Len(customers'[c].orders_history)]
            IN  /\ ships'[s].current_cargo = cargo - unloaded
                /\ events' = Append(events, completed)
                /\ completed.type = "delivery_completed"
                /\ completed.amount >= 0
                /\ unloaded = completed.amount + clamped
                /\ customers'[c].current_inventory
                    = customers[c].current_inventory + completed.amount
                /\ completed.inventory = customers'[c].current_inventory
                /\ completed.cargo = ships'[s].current_cargo
                /\ Len(customers'[c].orders_history)
                    = Len(customers[c].orders_history) + 1
                /\ order.amount_requested = unloaded
                /\ order.amount_received = completed.amount
                /\ \A o \in DOMAIN ships \ {s} : ships'[o] = ships[o]
                /\ \A o \in DOMAIN customers \ {c} :
                    customers'[o] = customers[o]
       /\ \A k \in 1..Len(customers_data) :
            LET c == customers_data[k].id
            IN  c \in DOMAIN customers' =>
                    customers'[c].current_inventory
                    = customers_data[k].initial_inventory
                        - AmountOf(events', "consumption", c)
                        + AmountOf(events', "delivery_completed", c)]_vars

\* deliveries have been completed, one of them with part of the unloaded
\* amount clamped away at max_inventory
C18_Witness ==
    /\ Cardinality({i \in 1..Len(events) :
                        events[i].type = "delivery_completed"}) >= 2
    /\ \E c \in DOMAIN customers :
        \E k \in 1..Len(customers[c].orders_history) :
            /\ customers[c].orders_history[k].amount_received > 0
            /\ customers[c].orders_history[k].amount_received
                < customers[c].orders_history[k].amount_requested

\* C19: at the end of a delivery, when the cargo left is below 0.2 * capacity
\* a resupply process of that ship is started and runs next, logging
\* resupply_started at the same time, and busy_until is left as it was; when
\* it is not, busy_until is set to the current time and nothing is started
C19_ResupplyOrIdleAfterDelivery ==
    [][/\ Resumes("delivery_unloaded") =>
            LET s == Popped.ship_id
            IN  /\ events'[Len(events')].type = "delivery_completed"
                /\ events'[Len(events')].time = Popped.time
                /\ phase' = "running"
                /\ IF 10 * ships'[s].current_cargo < 2 * ships'[s].capacity
                   THEN /\ ships'[s].busy_until = ships[s].busy_until
                        /\ \E e \in Submitted :
                            /\ Resumptions = {e}
                            /\ e.kind = "resupply_start"
                            /\ e.ship_id = s
                            /\ e.time = Popped.time
                            /\ Popped' = e
                   ELSE /\ ships'[s].busy_until = Popped.time
                        /\ Resumptions = {}
       /\ Resumes("resupply_start") =>
            /\ Len(events') > Len(events)
            /\ events'[Len(events) + 1].type = "resupply_started"
            /\ events'[Len(events) + 1].ship_id = Popped.ship_id
            /\ events'[Len(events) + 1].time = Popped.time
            /\ events[Len(events)].type = "delivery_completed"
            /\ events[Len(events)].ship_id = Popped.ship_id
            /\ events[Len(events)].time = Popped.time
       /\ \A e \in Submitted :
            e.kind = "resupply_start" => Resumes("delivery_unloaded")]_vars

\* one delivery has left a ship with exactly 0.2 * capacity, which was
\* marked idle, and another has left a ship with less, which went to
\* resupply
C19_Witness ==
    /\ \E k \in 1..Len(events) :
        /\ events[k].type = "delivery_completed"
        /\ 10 * events[k].cargo = 2 * ships[events[k].ship_id].capacity
        /\ (k = Len(events) \/ events[k + 1].type # "resupply_started")
    /\ \E k \in 1..Len(events) - 1 :
        /\ events[k].type = "delivery_completed"
        /\ 10 * events[k].cargo < 2 * ships[events[k].ship_id].capacity
        /\ events[k + 1].type = "resupply_started"
        /\ events[k + 1].time = events[k].time
    /\ now > events[Len(events)].time

\* C20: whenever resupply_completed is logged for a ship, the cargo of the
\* ship is its capacity, and so is the cargo level the event reports
C20_ResupplyFillsTheShip ==
    [][Resumes("resupply_loaded") =>
        /\ events'[Len(events')].type = "resupply_completed"
        /\ events'[Len(events')].ship_id = Popped.ship_id
        /\ events'[Len(events')].cargo = ships'[Popped.ship_id].current_cargo
        /\ ships'[Popped.ship_id].current_cargo
            = ships'[Popped.ship_id].capacity]_vars

\* C21: during a run the busy_until of a ship never decreases
C21_BusyUntilNeverDecreases ==
    [][phase = "running" =>
        \A s \in DOMAIN ships :
            ships'[s].busy_until >= ships[s].busy_until]_vars

\* the step about to run calls travel_to for a route of the matrix: the
\* start of a delivery, or the start of a resupply away from the port
Departing ==
    \/ /\ Resumes("delivery_start")
       /\ <<ships[Popped.ship_id].current_location,
             customers[Popped.customer_id].location>>
                \in DOMAIN distance_matrix
    \/ /\ Resumes("resupply_start")
       /\ ships[Popped.ship_id].current_location # "port_main"
       /\ <<ships[Popped.ship_id].current_location, "port_main">>
                \in DOMAIN distance_matrix

\* where the step about to run sends its ship
Destination ==
    IF Popped.kind = "delivery_start"
    THEN customers[Popped.customer_id].location
    ELSE "port_main"

\* C22: a successful travel_to appends exactly one journey record (from the
\* previous location to the destination, departing now, arriving at
\* now + distance / speed, with the current cargo), sets current_location to
\* the destination and busy_until to the arrival time, returns the arrival
\* time (the process wakes then), and leaves cargo, capacity and speed as
\* they were; no other ship changes
C22_TravelToFrame ==
    [][Departing =>
        LET s == Popped.ship_id
            before == ships[s]
            after == ships'[s]
            arrival == Popped.time
                + (distance_matrix[<<before.current_location, Destination>>]
                    * TimeScale) \div before.speed
        IN  /\ after.travel_history = Append(before.travel_history,
                    [departure |-> before.current_location,
                     destination |-> Destination,
                     departure_time |-> Popped.time,
                     arrival_time |-> arrival,
                     cargo |-> before.current_cargo])
            /\ after.current_location = Destination
            /\ after.busy_until = arrival
            /\ after.current_cargo = before.current_cargo
            /\ after.capacity = before.capacity
            /\ after.speed = before.speed
            /\ \A e \in Submitted : e.time = arrival /\ e.ship_id = s
            /\ Submitted # {}
            /\ now' = Popped.time
            /\ \A o \in DOMAIN ships \ {s} : ships'[o] = ships[o]]_vars

\* a ship has recorded a voyage to a customer with cargo and a later one
\* back to the port with less
C22_Witness ==
    \E s \in DOMAIN ships :
        \E i, j \in 1..Len(ships[s].travel_history) :
            LET first == ships[s].travel_history[i]
                second == ships[s].travel_history[j]
            IN  /\ i < j
                /\ first.arrival_time > first.departure_time
                /\ second.destination = "port_main"
                /\ second.departure = first.destination
                /\ second.arrival_time > second.departure_time
                /\ second.cargo < first.cargo

\* C23: for every ship of the run and every amount a >= 0, load(a) adds
\* min(a, capacity - cargo) to the cargo and returns it, unload(a) removes
\* min(a, cargo) and returns it, neither changes another field, and load(0)
\* and unload(0) return 0 and leave the ship as it is
C23_LoadAndUnloadClamp ==
    \A s \in DOMAIN ships : \A a \in 0..MaxAmount :
        LET ship == ships[s]
            room == ship.capacity - ship.current_cargo
            loaded == IF a <= room THEN a ELSE room
            unloaded == IF a <= ship.current_cargo THEN a
                        ELSE ship.current_cargo
        IN  /\ load(ship, a).result = loaded
            /\ load(ship, a).ship =
                    [ship EXCEPT !.current_cargo = ship.current_cargo + loaded]
            /\ unload(ship, a).result = unloaded
            /\ unload(ship, a).ship =
                    [ship EXCEPT !.current_cargo = ship.current_cargo - unloaded]
            /\ a = 0 =>
                /\ load(ship, a) = [ship |-> ship, result |-> 0]
                /\ unload(ship, a) = [ship |-> ship, result |-> 0]

\* a ship that has unloaded at a customer and loaded at the port carries
\* part of its capacity, so that larger amounts are clamped both ways
C23_Witness ==
    \E s \in DOMAIN ships :
        /\ ships[s].current_cargo > 0
        /\ ships[s].current_cargo < ships[s].capacity
        /\ \E i, j \in 1..Len(events) :
            /\ events[i].type = "resupply_completed"
            /\ events[i].ship_id = s
            /\ events[j].type = "delivery_completed"
            /\ events[j].ship_id = s
            /\ events[j].amount > 0

\* C24: a consumption tick removes fulfilled = min(demand_rate * time_step,
\* current_inventory) from the inventory of its customer and appends exactly
\* one history record, with the inventory after the tick, the demand
\* demand_rate * time_step, the amount fulfilled and the shortage
\* max(0, demand - fulfilled), so that fulfilled + shortage = demand; the
\* consumption event reports the same amount and inventory
C24_ConsumptionTick ==
    [][Resumes("consumption_tick") =>
        LET c == Popped.customer_id
            before == customers[c]
            after == customers'[c]
            demand == before.demand_rate * simulation_params.time_step
            fulfilled == IF demand <= before.current_inventory THEN demand
                         ELSE before.current_inventory
            record == after.inventory_history[Len(after.inventory_history)]
            logged == events'[Len(events) + 1]
        IN  /\ after.current_inventory = before.current_inventory - fulfilled
            /\ after.current_inventory >= 0
            /\ Len(after.inventory_history)
                = Len(before.inventory_history) + 1
            /\ IsPrefix(before.inventory_history, after.inventory_history)
            /\ record.inventory = after.current_inventory
            /\ record.demand = demand
            /\ record.fulfilled = fulfilled
            /\ record.shortage
                = (IF demand > fulfilled THEN demand - fulfilled ELSE 0)
            /\ record.fulfilled + record.shortage = record.demand
            /\ after.orders_history = before.orders_history
            /\ logged.type = "consumption"
            /\ logged.customer_id = c
            /\ logged.amount = fulfilled
            /\ logged.inventory = after.current_inventory
            /\ \A o \in DOMAIN customers \ {c} :
                customers'[o] = customers[o]]_vars

\* a customer has had a tick served in full and a tick with a shortage that
\* emptied what was left of its inventory, with time steps of two hours
C24_Witness ==
    /\ simulation_params.time_step = 2
    /\ \E c \in DOMAIN customers :
        \E i, j \in 1..Len(customers[c].inventory_history) :
            LET full == customers[c].inventory_history[i]
                short == customers[c].inventory_history[j]
            IN  /\ full.shortage = 0
                /\ full.fulfilled > 0
                /\ short.shortage > 0
                /\ short.fulfilled > 0
                /\ short.inventory = 0

\* C25: with simulation_duration = 0 run() raises nothing and returns a run
\* of length zero: no events, total_stockout_events = 0 and no customer
\* metrics
C25_ZeroDurationReturnsEmptyRun ==
    (simulation_params.simulation_duration <= 0 /\ phase # "constructed") =>
        /\ phase = "returned"
        /\ error = ""
        /\ events = <<>>
        /\ metrics.total_stockout_events = 0
        /\ DOMAIN metrics.customer_metrics = {}

\* C26: when env.run has returned with an empty event log (no tick ran
\* before the horizon), the computation of the metrics does not raise and
\* run() returns
C26_MetricsTolerateEmptyLog ==
    (/\ phase \in {"returned", "raised"}
     /\ simulation_params.simulation_duration > 0
     /\ now = Horizon
     /\ events = <<>>)
    => (phase = "returned" /\ error = "")

\* the sum of the numerators of the service levels of the customers that
\* have metrics, in the order of the customers
RECURSIVE LevelSum(_, _)
LevelSum(m, order) ==
    IF order = <<>> THEN 0
    ELSE (IF order[1] \in DOMAIN m.customer_metrics
          THEN m.customer_metrics[order[1]].service_level[1] ELSE 0)
         + LevelSum(m, Tail(order))

\* C27: once env.run has returned at the horizon, the metrics of the run
\* contain overall_service_level, the mean of the service levels of the
\* customers (a fraction <<numerator, denominator>>, all service levels
\* having the denominator simulation_duration), which is 0 when no customer
\* has a consumption event
C27_OverallServiceLevelDefined ==
    HorizonReached =>
        /\ "overall_service_level" \in DOMAIN metrics
        /\ "customer_metrics" \in DOMAIN metrics
        /\ IF DOMAIN metrics.customer_metrics = {}
           THEN metrics.overall_service_level[1] = 0
           ELSE metrics.overall_service_level =
                    <<LevelSum(metrics, CustomerOrder),
                      simulation_params.simulation_duration
                        * Cardinality(DOMAIN metrics.customer_metrics)>>

\* the consumption events of the customer that left its inventory at 0
Stockouts(c) ==
    {i \in 1..Len(events) :
        IsConsumption(events[i], c) /\ events[i].inventory = 0}

RECURSIVE StockoutCount(_)
StockoutCount(order) ==
    IF order = <<>> THEN 0
    ELSE Cardinality(Stockouts(order[1])) + StockoutCount(Tail(order))

\* C28: once env.run has returned with a non-empty log, the metrics give
\* total_stockout_events as the number of consumption events with inventory
\* 0, which is the sum of the stockout counts of the customers, and for each
\* customer stockout_hours = stockout count * time_step and service_level
\* = 1 - stockout_hours / simulation_duration (the fraction
\* <<simulation_duration - stockout_hours, simulation_duration>>)
C28_StockoutMetrics ==
    (HorizonReached /\ events # <<>>) =>
        /\ "total_stockout_events" \in DOMAIN metrics
        /\ "customer_metrics" \in DOMAIN metrics
        /\ metrics.total_stockout_events
            = Cardinality({i \in 1..Len(events) :
                            /\ events[i].type = "consumption"
                            /\ events[i].inventory = 0})
        /\ metrics.total_stockout_events = StockoutCount(CustomerOrder)
        /\ DOMAIN metrics.customer_metrics = DOMAIN customers
        /\ \A c \in DOMAIN customers :
            LET hours == Cardinality(Stockouts(c)) * simulation_params.time_step
            IN  /\ metrics.customer_metrics[c].stockout_hours = hours
                /\ metrics.customer_metrics[c].service_level
                    = <<simulation_params.simulation_duration - hours,
                        simulation_params.simulation_duration>>

\* the sum of the matrix distances of the journeys of a travel history
RECURSIVE JourneyDistance(_)
JourneyDistance(history) ==
    IF history = <<>> THEN 0
    ELSE distance_matrix[<<history[1].departure, history[1].destination>>]
         + JourneyDistance(Tail(history))

\* C29: when run() returns, ship_metrics has an entry for every ship of the
\* roster, with num_deliveries the number of its delivery_completed events,
\* num_resupplies the number of its resupply_completed events and
\* total_distance the sum of the matrix distances of its journeys (0 for a
\* ship that never moved); configurations with initial inventories within
\* the maximum
C29_ShipMetricsForEveryShip ==
    (/\ phase = "returned"
     /\ \A k \in 1..Len(customers_data) :
            customers_data[k].initial_inventory <= customers_data[k].max_inventory)
    =>
        \A s \in DOMAIN ships :
            /\ s \in DOMAIN metrics.ship_metrics
            /\ metrics.ship_metrics[s].num_deliveries
                = Cardinality({i \in 1..Len(events) :
                                /\ events[i].type = "delivery_completed"
                                /\ events[i].ship_id = s})
            /\ metrics.ship_metrics[s].num_resupplies
                = Cardinality({i \in 1..Len(events) :
                                /\ events[i].type = "resupply_completed"
                                /\ events[i].ship_id = s})
            /\ metrics.ship_metrics[s].total_distance
                = JourneyDistance(ships[s].travel_history)

\* C30: in a parameter study every engine starts with no entities and an
\* empty log, its parameters are those of the data source with the single
\* override of its own value, the results recorded are one per run in the
\* order of the values (all of them once the study has returned), and the
\* metrics recorded for a value are the same whatever was run before it:
\* those of the first run, a new engine on an untouched data source, when
\* the value comes again later
C30_StudyRunsAreIsolated ==
    study # NoStudy =>
        /\ Len(runs) <= Len(study.param_values)
        /\ phase = "idle" => Len(runs) < Len(study.param_values)
        /\ phase = "finished" => Len(runs) = Len(study.param_values)
        /\ phase = "constructed" =>
                ships = <<>> /\ customers = <<>> /\ events = <<>>
        /\ phase \in {"constructed", "running", "returned", "raised"} =>
                simulation_params =
                    [study.defaults EXCEPT ![study.param_name] =
                        study.param_values[Len(runs) + 1]]
        /\ \A i \in 1..Len(runs) :
                /\ runs[i].param_name = study.param_name
                /\ runs[i].param_value = study.param_values[i]
        /\ \A i, j \in 1..Len(runs) :
                runs[i].param_value = runs[j].param_value
                => runs[i].metrics = runs[j].metrics

C30_Witness ==
    /\ study # NoStudy
    /\ phase = "finished"
    /\ Len(runs) = 3
    /\ runs[1].param_value = runs[3].param_value
    /\ runs[1].metrics = runs[3].metrics
    /\ runs[2].metrics # runs[1].metrics

\* C31: a run whose metrics were computed returns its results even when
\* save_results of the data source raises
C31_SaveFailureStillReturns ==
    (/\ save_results = "raises"
     /\ \A c \in 1..Len(customers_data) :
            customers_data[c].initial_inventory
                <= customers_data[c].max_inventory
     /\ metrics # NoMetrics)
    => phase = "returned"

\* the configuration lacks a field the engine reads without a default
Malformed ==
    \/ FirstMalformed(ships_data, ShipRequired) # 0
    \/ FirstMalformed(customers_data, CustomerRequired) # 0
    \/ ~(ParamsRequired \subseteq DOMAIN simulation_params)

\* C32 as stated: on a configuration that lacks a required field, run()
\* fails in setup, before any step of a process: it never gets to the step
\* loop of the environment, and when it has raised no process has made a
\* step (every event the environment has issued is the start of a process)
C32_MalformedFailsAtSetup ==
    Malformed =>
        /\ phase # "running"
        /\ phase = "raised" => eid <= Len(customers_data)

\* C32: a required field that is missing makes run() raise KeyError where
\* the field is first read, with the clock at 0, no event logged and
\* nothing returned.  A field of a ship or customer record is read in
\* setup: no process is created.  simulation_duration is read by run()
\* after setup: the consumption processes are created and none has started.
\* time_step is read by each consumption process in its first step, which
\* env.run executes at time 0: with a positive horizon and at least one
\* customer every consumption process makes that step and fails, and the
\* first failure is raised.  Without time_step and with a horizon that is
\* not positive, env.run raises its ValueError before any step.  Without
\* time_step and without customers nothing reads the field: env.run goes to
\* the horizon, and run() ends there as it does on a complete
\* configuration without customers (KeyError of the metrics with a fleet,
\* a return without one)
C32_MalformedFailsWhereTheFieldIsRead ==
    LET in_record ==
            \/ FirstMalformed(ships_data, ShipRequired) # 0
            \/ FirstMalformed(customers_data, CustomerRequired) # 0
        no_duration == "simulation_duration" \notin DOMAIN simulation_params
        horizon == simulation_params.simulation_duration
        n == Len(customers_data)
        nothing_done == now = 0 /\ events = <<>> /\ metrics = NoMetrics
    IN  Malformed =>
        /\ in_record =>
            /\ nothing_done
            /\ queue = {} /\ eid = 0
            /\ phase \in {"constructed", "raised"}
            /\ phase = "raised" => error = "KeyError"
        /\ (~in_record /\ no_duration) =>
            /\ nothing_done
            /\ phase \in {"constructed", "raised"}
            /\ phase = "raised" =>
                /\ error = "KeyError"
                /\ eid = n
                /\ Cardinality(queue) = n
                /\ \A e \in queue : e.kind = "consumption_start"
        /\ (~in_record /\ ~no_duration /\ horizon <= 0) =>
            /\ nothing_done
            /\ phase \in {"constructed", "raised"}
            /\ phase = "raised" =>
                error = "ValueError: until must be > the current simulation time"
        /\ (~in_record /\ ~no_duration /\ horizon > 0 /\ n > 0) =>
            /\ nothing_done
            /\ phase \in {"constructed", "running", "raised"}
            /\ phase = "running" =>
                /\ queue # {}
                /\ \A e \in queue : e.time = 0 \/ e.kind = "until"
            /\ phase = "raised" =>
                /\ error = "KeyError"
                /\ eid = 2 * n + 1
                /\ \A e \in queue : e.kind \in {"process_failed", "until"}
        /\ (~in_record /\ ~no_duration /\ horizon > 0 /\ n = 0) =>
            /\ events = <<>>
            /\ phase = "constructed" => now = 0 /\ queue = {}
            /\ phase = "running" =>
                /\ now = 0
                /\ \A e \in queue : e.kind = "until"
            /\ phase = "raised" =>
                /\ now = Ticks(horizon)
                /\ ships_data # <<>>
                /\ error = "KeyError"
                /\ metrics = NoMetrics
            /\ phase = "returned" =>
                /\ now = Ticks(horizon)
                /\ ships_data = <<>>
                /\ metrics = [ship_metrics |-> <<>>]

C32_Witness ==
    /\ "time_step" \notin DOMAIN simulation_params
    /\ customers_data # <<>>
    /\ phase = "raised"
    /\ error = "KeyError"
    /\ eid = 2 * Len(customers_data) + 1
    /\ now = 0

\* the step about to run calls travel_to for a pair of places the matrix
\* has no distance for
DepartingWithoutRoute ==
    \/ /\ Resumes("delivery_start")
       /\ <<ships[Popped.ship_id].current_location,
             customers[Popped.customer_id].location>>
                \notin DOMAIN distance_matrix
    \/ /\ Resumes("resupply_start")
       /\ ships[Popped.ship_id].current_location # "port_main"
       /\ <<ships[Popped.ship_id].current_location, "port_main">>
                \notin DOMAIN distance_matrix

\* C33: a travel_to for which the matrix has no distance fails (the process
\* that called it fails with the error) and leaves the ship as it was:
\* location, busy_until, cargo and travel history; no other ship changes
\* either
C33_TravelToWithoutRoute ==
    [][DepartingWithoutRoute =>
        LET s == Popped.ship_id
        IN  /\ ships'[s].current_location = ships[s].current_location
            /\ ships'[s].busy_until = ships[s].busy_until
            /\ ships'[s].current_cargo = ships[s].current_cargo
            /\ ships'[s].travel_history = ships[s].travel_history
            /\ ships' = ships
            /\ \E f \in Submitted :
                    /\ f.kind = "process_failed"
                    /\ f.ship_id = s
                    /\ f.time = Popped.time
            /\ \A f \in Submitted : f.kind = "process_failed"]_vars

\* a run has ended with the route error of a ship that has travelled before
\* and stays where its last voyage took it
C33_Witness ==
    /\ RouteFailure
    /\ \E s \in DOMAIN ships :
        /\ events[Len(events)].ship_id = s
        /\ ships[s].travel_history # <<>>
        /\ ships[s].current_location # "port_main"
        /\ ships[s].current_location =
                ships[s].travel_history[Len(ships[s].travel_history)].destination

\* the delivery and resupply processes a ship is engaged in: each live
\* process has one entry in the queue, the step it will resume with
Engagements(s) ==
    {e \in queue :
        e.ship_id = s /\ e.kind \notin {"process_failed", "process_done"}}

\* C34: at any time each ship is engaged in at most one delivery or
\* resupply process (configurations whose initial inventories are within
\* the maximum and whose distances are all positive)
C34_OneProcessPerShip ==
    (/\ \A c \in 1..Len(customers_data) :
            customers_data[c].initial_inventory
                <= customers_data[c].max_inventory
     /\ \A r \in DOMAIN distance_matrix : distance_matrix[r] > 0)
    => \A s \in DOMAIN ships : Cardinality(Engagements(s)) <= 1

\* the dispatcher's filter passes the ship now
EligibleNow(s) == ships[s].busy_until <= now /\ ships[s].current_cargo > 0

\* the matrix has a distance between any two of the port, the places the
\* ships start at and the places of the customers
AllRoutesExist ==
    LET places == {"port_main"}
            \cup {ships_data[i].initial_location : i \in 1..Len(ships_data)}
            \cup {customers_data[i].location : i \in 1..Len(customers_data)}
    IN  \A a, b \in places : <<a, b>> \in DOMAIN distance_matrix

\* the run has reached the horizon while a process of the ship was waiting
\* for a time at or after it
CutByTheHorizon(s) ==
    /\ phase \in {"returned", "raised"}
    /\ \E e \in Engagements(s) :
            e.time >= Ticks(simulation_params.simulation_duration)

\* C35: when all routes exist, a ship that is engaged in a delivery or a
\* resupply becomes dispatch-eligible again (busy_until <= now and cargo
\* > 0) unless the horizon comes before the next step of its process: the
\* completion of a delivery that leaves at least 0.2 x capacity makes it
\* eligible at once and starts no resupply, one that leaves less starts the
\* resupply, and the completion of the resupply makes it eligible
C35_DispatchedShipBecomesEligibleAgain ==
    /\ [][(AllRoutesExist /\ Resumes("delivery_unloaded")) =>
            LET s == Popped.ship_id
            IN  IF 5 * ships'[s].current_cargo >= ships'[s].capacity
                THEN /\ ships'[s].busy_until <= now'
                     /\ ships'[s].current_cargo > 0
                     /\ Resumptions = {}
                ELSE \E e \in Submitted :
                        /\ e.kind = "resupply_start"
                        /\ e.ship_id = s
                        /\ e.time = now']_vars
    /\ [][(AllRoutesExist /\ Resumes("resupply_loaded")) =>
            /\ ships'[Popped.ship_id].busy_until <= now'
            /\ ships'[Popped.ship_id].current_cargo > 0
            /\ Resumptions = {}]_vars
    /\ \A s \in {1, 2} :
            (AllRoutesExist /\ phase = "running" /\ Engagements(s) # {})
            ~> (phase # "constructed" /\ (EligibleNow(s) \/ CutByTheHorizon(s)))

\* a ship that was resupplied after a delivery is eligible while the run
\* goes on and no process of it is left
C35_Witness ==
    /\ AllRoutesExist
    /\ phase = "running"
    /\ events # <<>>
    /\ \E s \in DOMAIN ships :
        /\ EligibleNow(s)
        /\ Engagements(s) = {}
        /\ \E i \in 1..Len(events) :
                events[i].type = "delivery_completed" /\ events[i].ship_id = s
        /\ events[Len(events)].type = "resupply_completed"
        /\ events[Len(events)].ship_id = s

\* C36: a resupply process is started only by the step that completes a
\* delivery of the ship and leaves it below 0.2 x capacity; a ship that is
\* in no process and has no cargo is changed by no step and gets no
\* process: it is never dispatched, never resupplied, and its cargo stays 0
C36_EmptyIdleShipStaysOut ==
    /\ [][\A e \in Submitted :
            e.kind = "resupply_start" =>
                /\ Resumes("delivery_unloaded")
                /\ Popped.ship_id = e.ship_id
                /\ 5 * ships'[e.ship_id].current_cargo
                        < ships'[e.ship_id].capacity
                /\ events'[Len(events')].type = "delivery_completed"
                /\ events'[Len(events')].ship_id = e.ship_id]_vars
    /\ [][phase = "running" =>
            \A s \in DOMAIN ships :
                (Engagements(s) = {} /\ ships[s].current_cargo = 0) =>
                    /\ ships'[s] = ships[s]
                    /\ \A e \in Submitted : e.ship_id # s
                    /\ Len(events') > Len(events) =>
                            \A i \in (Len(events) + 1)..Len(events') :
                                events'[i].ship_id # s]_vars

\* a run has returned in which a ship that started empty at the port still
\* is, has made no voyage and has no event, although a delivery failed for
\* want of a ship
C36_Witness ==
    /\ phase = "returned"
    /\ \E i \in 1..Len(events) : events[i].type = "delivery_failed"
    /\ \E s \in DOMAIN ships :
        /\ \E i \in 1..Len(ships_data) :
                ships_data[i].id = s /\ ships_data[i].initial_cargo = 0
        /\ ships[s].current_cargo = 0
        /\ ships[s].travel_history = <<>>
        /\ \A i \in 1..Len(events) : events[i].ship_id # s

\* the delivery processes under way to a customer
InFlight(c) ==
    {e \in queue :
        /\ e.customer_id = c
        /\ e.kind \in {"delivery_start", "delivery_arrived",
                        "delivery_unloaded"}}

\* C37: at any time at most one delivery to a customer is in flight
\* (configurations whose initial inventories are within the maximum and
\* whose distances are all positive)
C37_OneDeliveryPerCustomer ==
    (/\ \A c \in 1..Len(customers_data) :
            customers_data[c].initial_inventory
                <= customers_data[c].max_inventory
     /\ \A r \in DOMAIN distance_matrix : distance_matrix[r] > 0)
    => \A c \in DOMAIN customers : Cardinality(InFlight(c)) <= 1

\* the consumption events of a customer, in the order of the log
ConsumptionsOf(c) ==
    SelectSeq(events,
              LAMBDA e : e.type = "consumption" /\ e.customer_id = c)

\* C38: the inventory history of a customer has one record per consumption
\* event of the customer, in the same order, with the time of that event,
\* which is never after the horizon
C38_HistoryTimeIsTheTickTime ==
    \A c \in DOMAIN customers :
        LET history == customers[c].inventory_history
            ticks == ConsumptionsOf(c)
        IN  /\ Len(history) = Len(ticks)
            /\ \A i \in 1..Len(history) :
                /\ history[i].time = ticks[i].time
                /\ history[i].time
                        <= Ticks(simulation_params.simulation_duration)

====
